---------------------------- MODULE Spec2Model ----------------------------
(***************************************************************************)
(* A model of the resume parser of src/pdf_parser.py, of the database     *)
(* calls of src/db_utils.py and of process_resumes of src/main.py.         *)
(*                                                                         *)
(* Text is a TLA+ string, read character by character (a character is a    *)
(* string of length 1).  The regular expressions of the source are given   *)
(* as pattern values and matched by a backtracking matcher with the        *)
(* priorities of Python's re module (greedy and lazy repetition, ordered   *)
(* alternation, leftmost non-overlapping scans).                           *)
(*                                                                         *)
(* Two characters of the source are outside the ASCII strings TLA+ can     *)
(* write and are stood for by ASCII characters used for nothing else:      *)
(* EnDash (U+2013) and Bullet (U+2022).                                    *)
(***************************************************************************)
EXTENDS Integers, Sequences, FiniteSets, Bags, TLC

VARIABLES
    pc,               \* position of the running call
    document,         \* the PDF given to parse_resume: its pages' texts
    readable,         \* whether PdfReader can read the document
    raw_text,         \* parse_resume: raw_text
    lines,            \* parse_resume: lines
    idx,              \* parse_resume: number of lines the scan has filed
    current_section,  \* parse_resume: current_section
    section_lines,    \* parse_resume: section_lines
    name,             \* parse_resume: name
    parsed,           \* the ParsedResume returned (Pending until then)
    calls,            \* the extractors called so far, in call order
    fn,               \* the extractor called directly (specifications of one extractor)
    input,            \* its argument
    result,           \* its return value (None until it returns)
    folder,           \* parse_resumes_from_folder: the folder, whether it exists and its files
    pdf_files,        \* parse_resumes_from_folder: pdf_files
    parsed_resumes,   \* parse_resumes_from_folder: parsed_resumes
    parser,           \* the ResumeParser: its patterns and skill_keywords
    parses,           \* calls of parse_resume under way together: the locals of each
    heap,             \* the list objects the records of these calls refer to
    store,            \* the database server: what is committed
    connection,       \* the connection of the running database call
    frame,            \* the locals of the running database call
    success_count,    \* process_resumes: success_count
    processed         \* process_resumes: what insert_parsed_resume returned, resume by resume

vars == <<pc, document, readable, raw_text, lines, idx, current_section,
          section_lines, name, parsed, calls, fn, input, result,
          folder, pdf_files, parsed_resumes, parser, parses, heap,
          store, connection, frame, success_count, processed>>

parse_vars == <<document, readable, raw_text, lines, idx, current_section,
                section_lines, name, parsed, calls>>
folder_vars == <<folder, pdf_files, parsed_resumes>>
pool_vars == <<parser, parses, heap>>
db_vars == <<store, connection, frame>>
main_vars == <<success_count, processed>>
\* What a call of parse_resume or of one extractor leaves alone
surroundings == <<folder_vars, pool_vars, db_vars, main_vars>>

None == "<None>"
Pending == <<>>
Raised == "<raised>"
\* os.path.exists is False
Missing == [exists |-> FALSE, listing |-> <<>>]

(***************************************************************************)
(* Characters and Python's str methods                                     *)
(***************************************************************************)
EnDash == "~"
Bullet == "^"

Ch(s, i) == SubSeq(s, i, i)
Chars(s) == {Ch(s, i) : i \in 1..Len(s)}

UpperLetters == "ABCDEFGHIJKLMNOPQRSTUVWXYZ"
LowerLetters == "abcdefghijklmnopqrstuvwxyz"
DigitChars == "0123456789"
Upper == Chars(UpperLetters)
Lower == Chars(LowerLetters)
Letter == Upper \cup Lower
Digit == Chars(DigitChars)
Space == {" ", "\t", "\n", "\r", "\f"}
Word == Letter \cup Digit \cup {"_"}

LetterIndex(alphabet, c) == CHOOSE i \in 1..Len(alphabet) : Ch(alphabet, i) = c
LowerChar(c) == IF c \in Upper THEN Ch(LowerLetters, LetterIndex(UpperLetters, c)) ELSE c
UpperChar(c) == IF c \in Lower THEN Ch(UpperLetters, LetterIndex(LowerLetters, c)) ELSE c

Min(S) == CHOOSE x \in S : \A y \in S : x <= y
Max(S) == CHOOSE x \in S : \A y \in S : y <= x

\* str.lower()
RECURSIVE lower(_)
lower(s) ==
    IF Len(s) = 0 THEN ""
    ELSE IF Len(s) = 1 THEN LowerChar(s)
    ELSE LET h == Len(s) \div 2
         IN lower(SubSeq(s, 1, h)) \o lower(SubSeq(s, h + 1, Len(s)))

\* str.title(): a letter is upper-cased when it follows a character that is
\* not a letter, and lower-cased otherwise.
RECURSIVE TitleFrom(_, _, _)
TitleFrom(s, lo, hi) ==
    IF lo > hi THEN ""
    ELSE IF lo = hi
         THEN IF lo = 1 \/ Ch(s, lo - 1) \notin Letter
              THEN UpperChar(Ch(s, lo)) ELSE LowerChar(Ch(s, lo))
    ELSE LET h == (lo + hi) \div 2
         IN TitleFrom(s, lo, h) \o TitleFrom(s, h + 1, hi)
title(s) == TitleFrom(s, 1, Len(s))

\* str.strip()
strip(s) ==
    LET keep == {i \in 1..Len(s) : Ch(s, i) \notin Space}
    IN IF keep = {} THEN "" ELSE SubSeq(s, Min(keep), Max(keep))

\* str.isupper(): at least one cased character, and no lower-case one
isupper(s) == (\E i \in 1..Len(s) : Ch(s, i) \in Upper)
              /\ (\A i \in 1..Len(s) : Ch(s, i) \notin Lower)

\* The elements of a finite set of integers in increasing order.
Sorted(S) ==
    [k \in 1..Cardinality(S) |-> CHOOSE x \in S : Cardinality({y \in S : y < x}) = k - 1]

\* The pieces of s between the positions `cuts` (each holding one separator).
Pieces(s, cuts) ==
    LET c == Sorted(cuts)
        n == Len(c)
    IN [k \in 1..(n + 1) |->
           SubSeq(s, IF k = 1 THEN 1 ELSE c[k - 1] + 1,
                     IF k = n + 1 THEN Len(s) ELSE c[k] - 1)]

\* str.split(sep) for a separator of one character; re.split of a class of
\* single characters.
SplitOn(s, seps) == Pieces(s, {i \in 1..Len(s) : Ch(s, i) \in seps})
split_lines(s) == SplitOn(s, {"\n"})

\* len(str.split()): the number of maximal runs of non-blank characters
WordCount(s) ==
    Cardinality({i \in 1..Len(s) :
        Ch(s, i) \notin Space /\ (i = 1 \/ Ch(s, i - 1) \in Space)})

\* str.replace(old, new) for single characters
RECURSIVE replace(_, _, _)
replace(s, old, new) ==
    IF Len(s) = 0 THEN ""
    ELSE IF Len(s) = 1 THEN (IF s = old THEN new ELSE s)
    ELSE LET h == Len(s) \div 2
         IN replace(SubSeq(s, 1, h), old, new) \o replace(SubSeq(s, h + 1, Len(s)), old, new)

\* sep.join(list)
RECURSIVE join(_, _)
join(sep, list) ==
    IF Len(list) = 0 THEN ""
    ELSE IF Len(list) = 1 THEN list[1]
    ELSE LET h == Len(list) \div 2
         IN join(sep, SubSeq(list, 1, h)) \o sep \o join(sep, SubSeq(list, h + 1, Len(list)))

\* `sub in s`
Contains(s, sub) ==
    \E i \in 1..(Len(s) - Len(sub) + 1) : SubSeq(s, i, i + Len(sub) - 1) = sub

(***************************************************************************)
(* Regular expressions (module re)                                         *)
(*                                                                         *)
(* A pattern is a sequence of items, matched one after the other:          *)
(*   Rep   a character class repeated min..max times, greedy or lazy       *)
(*   Alt   ordered alternatives, each a pattern: (?:a|b); (?:a)? is        *)
(*         Alt(<<a, <<>>>>)                                                *)
(*   Star  (?:body)* or (?:body)*?                                         *)
(*   Open, Close   the bounds of a capturing group                         *)
(*   Bol (^), Eol ($), Eos (\Z), Wb (\b)                                   *)
(* A class is a set of characters or the complement of one.  Under         *)
(* re.IGNORECASE a class holds both cases of its letters (IC).             *)
(***************************************************************************)
In(set) == [neg |-> FALSE, set |-> set]
NotIn(set) == [neg |-> TRUE, set |-> set]
IC(set) == {LowerChar(c) : c \in set} \cup {UpperChar(c) : c \in set}
InClass(c, cls) == (c \in cls.set) # cls.neg

\* cls{min,max}, or cls{min,} when capped is FALSE
Rep(cls, min, max, greedy) ==
    [k |-> "rep", cls |-> cls, min |-> min, max |-> max, capped |-> TRUE, greedy |-> greedy]
AtLeast(cls, min, greedy) ==
    [k |-> "rep", cls |-> cls, min |-> min, max |-> min, capped |-> FALSE, greedy |-> greedy]
One(cls) == Rep(cls, 1, 1, TRUE)
Opt(cls) == Rep(cls, 0, 1, TRUE)
Many(cls) == AtLeast(cls, 0, TRUE)
Some(cls) == AtLeast(cls, 1, TRUE)
Alt(alts) == [k |-> "alt", alts |-> alts]
Star(body, greedy) == [k |-> "star", body |-> body, greedy |-> greedy]
Open(g) == [k |-> "open", g |-> g]
Close(g) == [k |-> "close", g |-> g]
Bol == [k |-> "bol"]
Eol == [k |-> "eol"]
Eos == [k |-> "eos"]
Wb == [k |-> "wb"]

\* A literal word; with ic, in either case of each letter.
Lit(w, ic) == [i \in 1..Len(w) |-> One(In(IF ic THEN IC({Ch(w, i)}) ELSE {Ch(w, i)}))]
Group(g, body) == <<Open(g)>> \o body \o <<Close(g)>>

GroupIds == {"1", "2", "years", "months", "months_only"}
NoGroups == [g \in GroupIds |-> <<0, 0>>]
Fail == [ok |-> FALSE]

\* The number of characters of s from i on that are in the class of the
\* repetition h, at most its maximum.
Run(s, i, h) ==
    LET last == IF h.capped /\ i + h.max - 1 < Len(s) THEN i + h.max - 1 ELSE Len(s)
        stop == {j \in i..last : ~InClass(Ch(s, j), h.cls)}
    IN (IF stop = {} THEN last + 1 ELSE Min(stop)) - i

\* The match of pattern p in s that starts at i, the one a backtracking
\* matcher finds first, or Fail.  groups holds the groups closed so far.
RECURSIVE Match(_, _, _, _), MatchAlt(_, _, _, _, _, _)
Match(p, s, i, groups) ==
    IF p = <<>> THEN [ok |-> TRUE, start |-> 0, end |-> i, groups |-> groups]
    ELSE LET h == Head(p)
             rest == Tail(p)
         IN CASE h.k = "rep" ->
                  IF h.min > 0 /\ (i > Len(s) \/ ~InClass(Ch(s, i), h.cls)) THEN Fail
                  ELSE LET run == Run(s, i, h)
                           tries == {[n |-> n, m |-> Match(rest, s, i + n, groups)] : n \in h.min..run}
                           good == {t \in tries : t.m.ok}
                           ns == {t.n : t \in good}
                       IN IF good = {} THEN Fail
                          ELSE (CHOOSE t \in good : t.n = IF h.greedy THEN Max(ns) ELSE Min(ns)).m
              [] h.k = "alt" -> MatchAlt(h.alts, 1, rest, s, i, groups)
              [] h.k = "star" ->
                  LET more == Match(h.body \o p, s, i, groups)
                      done == Match(rest, s, i, groups)
                  IN IF h.greedy
                     THEN (IF more.ok THEN more ELSE done)
                     ELSE (IF done.ok THEN done ELSE more)
              [] h.k = "open" ->
                  Match(rest, s, i, [groups EXCEPT ![h.g] = <<i, 0>>])
              [] h.k = "close" ->
                  Match(rest, s, i, [groups EXCEPT ![h.g] = <<groups[h.g][1], i>>])
              [] h.k = "bol" -> IF i = 1 THEN Match(rest, s, i, groups) ELSE Fail
              [] h.k = "eol" ->
                  IF i = Len(s) + 1 \/ (i = Len(s) /\ Ch(s, i) = "\n")
                  THEN Match(rest, s, i, groups) ELSE Fail
              [] h.k = "eos" -> IF i = Len(s) + 1 THEN Match(rest, s, i, groups) ELSE Fail
              [] h.k = "wb" ->
                  IF (i > 1 /\ Ch(s, i - 1) \in Word) # (i <= Len(s) /\ Ch(s, i) \in Word)
                  THEN Match(rest, s, i, groups) ELSE Fail
MatchAlt(alts, n, rest, s, i, groups) ==
    IF n > Len(alts) THEN Fail
    ELSE LET m == Match(alts[n] \o rest, s, i, groups)
         IN IF m.ok THEN m ELSE MatchAlt(alts, n + 1, rest, s, i, groups)

\* re.match(p, s)
re_match(p, s) == Match(p, s, 1, NoGroups)

\* re.finditer(p, s): the leftmost matches of p in s, none overlapping
\* another, in text order.  No pattern of the source matches the empty string.
RECURSIVE Leftmost(_, _)
Leftmost(hits, from) ==
    LET later == {h \in hits : h.start >= from}
    IN IF later = {} THEN <<>>
       ELSE LET first == CHOOSE h \in later : \A o \in later : h.start <= o.start
            IN <<first>> \o Leftmost(hits, first.end)
finditer(p, s) ==
    LET at == {[start |-> i, m |-> Match(p, s, i, NoGroups)] : i \in 1..Len(s)}
        hits == {[start |-> a.start, end |-> a.m.end, groups |-> a.m.groups] : a \in {x \in at : x.m.ok}}
    IN Leftmost(hits, 1)

\* match.group(g): None for a group that took no part in the match
group(s, m, g) ==
    IF m.groups[g][2] = 0 THEN None ELSE SubSeq(s, m.groups[g][1], m.groups[g][2] - 1)
\* match.group(0)
group0(s, m) == SubSeq(s, m.start, m.end - 1)

(***************************************************************************)
(* Numbers: float(str) of a decimal numeral as an exact fraction, and      *)
(* round(x, 2) as a number of hundredths (700 is 7.0, 50 is 0.5).          *)
(***************************************************************************)
RECURSIVE int(_)
int(s) ==
    IF Len(s) = 0 THEN 0
    ELSE 10 * int(SubSeq(s, 1, Len(s) - 1)) + (LetterIndex(DigitChars, Ch(s, Len(s))) - 1)

RECURSIVE Pow10(_)
Pow10(n) == IF n = 0 THEN 1 ELSE 10 * Pow10(n - 1)

\* float("12"), float("2.5")
float(s) ==
    LET dots == {i \in 1..Len(s) : Ch(s, i) = "."}
    IN IF dots = {} THEN [num |-> int(s), den |-> 1]
       ELSE LET d == Min(dots)
            IN [num |-> int(SubSeq(s, 1, d - 1) \o SubSeq(s, d + 1, Len(s))),
                den |-> Pow10(Len(s) - d)]
Zero == [num |-> 0, den |-> 1]
Plus(a, b) == [num |-> a.num * b.den + b.num * a.den, den |-> a.den * b.den]
Over(a, n) == [num |-> a.num, den |-> a.den * n]
LessEq(a, b) == a.num * b.den <= b.num * a.den
\* sum(list), where max(list) is meant
sum_for_max(list) ==
    LET F[n \in 0..Len(list)] == IF n = 0 THEN Zero ELSE Plus(F[n - 1], list[n])
    IN F[Len(list)]
\* max(list)
max(list) == list[CHOOSE i \in 1..Len(list) : \A j \in 1..Len(list) : LessEq(list[j], list[i])]
\* round(x, 2), in hundredths.  A value halfway between two hundredths (none
\* arises from numerals of at most two decimals) goes to the even one.
round2(x) ==
    LET q == (100 * x.num) \div x.den
        r == (100 * x.num) % x.den
    IN IF 2 * r < x.den THEN q
       ELSE IF 2 * r > x.den THEN q + 1
       ELSE IF q % 2 = 0 THEN q ELSE q + 1

(***************************************************************************)
(* ResumeParser.__init__: the pattern and skill tables                     *)
(***************************************************************************)
D == In(Digit)
S == In(Space)
Sep == In({"-", ".", " ", "\t", "\n", "\r", "\f"})

\* \b[A-Za-z0-9._%+-]+@[A-Za-z0-9.-]+\.[A-Z|a-z]{2,}\b
email_pattern ==
    <<Wb, Some(In(Letter \cup Digit \cup Chars("._%+-"))), One(In({"@"})),
      Some(In(Letter \cup Digit \cup Chars(".-"))), One(In({"."})),
      AtLeast(In(Letter \cup {"|"}), 2, TRUE), Wb>>

\* (?:\+?1[-.\s]?)?\(?[2-9]\d{2}\)?[-.\s]?\d{3}[-.\s]?\d{4}
phone_pattern ==
    <<Alt(<< <<Opt(In({"+"})), One(In({"1"})), Opt(Sep)>>, <<>> >>),
      Opt(In({"("})), One(In(Chars("23456789"))), Rep(D, 2, 2, TRUE), Opt(In({")"})),
      Opt(Sep), Rep(D, 3, 3, TRUE), Opt(Sep), Rep(D, 4, 4, TRUE)>>

skill_keywords ==
    << \* programming
       "python", "java", "javascript", "c++", "c#", "php", "ruby", "go",
       "swift", "kotlin", "typescript", "scala", "matlab", "sql",
       \* web
       "html", "css", "react", "angular", "vue", "node.js", "express",
       "django", "flask", "spring", "laravel", "rails",
       \* data
       "pandas", "numpy", "scikit-learn", "tensorflow", "pytorch",
       "apache spark", "hadoop", "tableau", "power bi",
       \* cloud
       "aws", "azure", "gcp", "docker", "kubernetes", "terraform",
       \* databases
       "mysql", "postgresql", "mongodb", "redis", "cassandra", "oracle" >>

(***************************************************************************)
(* extract_name, extract_email, extract_phone                              *)
(***************************************************************************)
NameLines == 5

\* ^[A-Z][a-zA-Z]+\s+[A-Z][a-zA-Z]+(?:\s+[A-Z][a-zA-Z]+)?$
name_shape ==
    <<Bol, One(In(Upper)), Some(In(Letter)), Some(S), One(In(Upper)), Some(In(Letter)),
      Alt(<< <<Some(S), One(In(Upper)), Some(In(Letter))>>, <<>> >>), Eol>>

RECURSIVE FirstName(_, _)
FirstName(ls, i) ==
    IF i > Len(ls) \/ i > NameLines THEN None
    ELSE LET line == strip(ls[i])
         IN IF Len(line) > 3 /\ WordCount(line) >= 2 /\ re_match(name_shape, line).ok
            THEN line
            ELSE FirstName(ls, i + 1)
\* Every line is looked at, not the first five only
extract_name_anywhere(text) ==
    LET ls == split_lines(text)
        named == {j \in 1..Len(ls) : FirstName(<<ls[j]>>, 1) # None}
    IN IF named = {} THEN None ELSE strip(ls[Min(named)])
\* lines 84-94
extract_name(text) == FirstName(split_lines(text), 1)

\* re.findall of a pattern without groups: the matched texts
findall0(p, s) == LET ms == finditer(p, s) IN [k \in 1..Len(ms) |-> group0(s, ms[k])]

extract_email(text) ==
    LET emails == findall0(email_pattern, text)
    IN IF emails # <<>> THEN emails[1] ELSE None

extract_phone(text) ==
    LET phones == findall0(phone_pattern, text)
    IN IF phones # <<>> THEN phones[1] ELSE None

(***************************************************************************)
(* extract_experience_years                                                *)
(***************************************************************************)
Plus1 == In({"+"})
\* (?P<years>\d+(?:\.\d+)?)
Years == Group("years", <<Some(D), Alt(<< <<One(In({"."})), Some(D)>>, <<>> >>)>>)

experience_patterns ==
    << \* (?P<years>\d+(?:\.\d+)?)\s*(?:\+)?\s*years?(?:\s+and\s+(?P<months>\d+)\s*months?)?
       Years \o <<Many(S), Opt(Plus1), Many(S)>> \o Lit("year", FALSE) \o <<Opt(In({"s"}))>>
         \o <<Alt(<< <<Some(S)>> \o Lit("and", FALSE) \o <<Some(S)>>
                       \o Group("months", <<Some(D)>>) \o <<Many(S)>>
                       \o Lit("month", FALSE) \o <<Opt(In({"s"}))>>,
                     <<>> >>)>>,
       \* (?P<months_only>\d+)\s*months?\s+(?:of\s+)?experience
       Group("months_only", <<Some(D)>>) \o <<Many(S)>> \o Lit("month", FALSE)
         \o <<Opt(In({"s"})), Some(S), Alt(<< Lit("of", FALSE) \o <<Some(S)>>, <<>> >>)>>
         \o Lit("experience", FALSE),
       \* experience.*?(?P<years>\d+(?:\.\d+)?)\s*(?:\+)?\s*years?
       Lit("experience", FALSE) \o <<AtLeast(NotIn({"\n"}), 0, FALSE)>> \o Years
         \o <<Many(S), Opt(Plus1), Many(S)>> \o Lit("year", FALSE) \o <<Opt(In({"s"}))>>,
       \* (?P<years>\d+(?:\.\d+)?)\s*yr[s]?\s+exp
       Years \o <<Many(S)>> \o Lit("yr", FALSE) \o <<Opt(In({"s"})), Some(S)>>
         \o Lit("exp", FALSE) >>

\* The total of one match: lines 122-133
match_total(s, m) ==
    LET years == group(s, m, "years")
        months == group(s, m, "months")
        months_only == group(s, m, "months_only")
        t1 == IF years # None THEN float(years) ELSE Zero
        t2 == IF months # None THEN Plus(t1, Over(float(months), 12)) ELSE t1
    IN IF months_only # None THEN Plus(t2, Over(float(months_only), 12)) ELSE t2

\* The totals of every match of every pattern, in the order they are appended
RECURSIVE experience_totals(_, _)
experience_totals(text_lower, k) ==
    IF k > Len(experience_patterns) THEN <<>>
    ELSE LET ms == finditer(experience_patterns[k], text_lower)
         IN [j \in 1..Len(ms) |-> match_total(text_lower, ms[j])]
            \o experience_totals(text_lower, k + 1)

extract_experience_years(text) ==
    LET experience_years == experience_totals(lower(text), 1)
    IN IF experience_years # <<>> THEN round2(max(experience_years)) ELSE 0

(***************************************************************************)
(* extract_companies                                                       *)
(***************************************************************************)
MaxCompanies == 5

L == In(Letter)
CompanyChar == In(Letter \cup Space \cup {"&"})
Dash == In({EnDash, "-"})
Year4 == Rep(D, 4, 4, TRUE)

company_patterns ==
    << \* ([A-Z][a-zA-Z\s&]+(?:Inc|LLC|Corp|Ltd|Company))\s*[,\-\s]*(\d{4}\s*[--]\s*(?:\d{4}|Present))
       Group("1", <<One(L), Some(CompanyChar),
                    Alt(<<Lit("Inc", TRUE), Lit("LLC", TRUE), Lit("Corp", TRUE),
                          Lit("Ltd", TRUE), Lit("Company", TRUE)>>)>>)
         \o <<Many(S), Many(In(Space \cup {",", "-"}))>>
         \o Group("2", <<Year4, Many(S), One(Dash), Many(S),
                         Alt(<< <<Year4>>, Lit("Present", TRUE) >>)>>),
       \* ([A-Z][a-zA-Z\s&]+)\s*[,\-\s]*(\d{4}\s*[--]\s*(?:\d{4}|Present|Current))
       Group("1", <<One(L), Some(CompanyChar)>>)
         \o <<Many(S), Many(In(Space \cup {",", "-"}))>>
         \o Group("2", <<Year4, Many(S), One(Dash), Many(S),
                         Alt(<< <<Year4>>, Lit("Present", TRUE), Lit("Current", TRUE) >>)>>) >>

\* lines 149-155: every match of every pattern, pattern by pattern
RECURSIVE company_matches(_, _)
company_matches(text, k) ==
    IF k > Len(company_patterns) THEN <<>>
    ELSE LET ms == finditer(company_patterns[k], text)
         IN [j \in 1..Len(ms) |->
                [company_name |-> strip(group(text, ms[j], "1")),
                 tenure |-> strip(group(text, ms[j], "2"))]]
            \o company_matches(text, k + 1)

\* Every collected entry kept
unique_companies_all(companies) == companies
\* Entries compared by their names as written
unique_companies_cased(companies) ==
    LET firsts == {j \in 1..Len(companies) :
                      \A i \in 1..(j - 1) : companies[i].company_name # companies[j].company_name}
        order == Sorted(firsts)
    IN [j \in 1..Len(order) |-> companies[order[j]]]
\* lines 157-164: an entry is kept when no earlier entry has its lowercased name
unique_companies(companies) ==
    LET keys == [j \in 1..Len(companies) |-> lower(companies[j].company_name)]
        firsts == {j \in 1..Len(companies) : \A i \in 1..(j - 1) : keys[i] # keys[j]}
        order == Sorted(firsts)
    IN [j \in 1..Len(order) |-> companies[order[j]]]

\* list[:n]
Prefix(list, n) == SubSeq(list, 1, IF Len(list) < n THEN Len(list) ELSE n)

\* Every entry returned, however many
extract_companies_uncapped(text) == unique_companies(company_matches(text, 1))
\* lines 139-166
extract_companies(text) == Prefix(unique_companies(company_matches(text, 1)), MaxCompanies)

(***************************************************************************)
(* extract_skills                                                          *)
(*                                                                         *)
(* skills_found is a Python set: the model keeps its elements in the order *)
(* they were first added.  list(skills_found) enumerates the set in an     *)
(* order the language leaves open, so the list returned is modelled by the *)
(* bag of its elements, and [:20] keeps any 20 of them.                    *)
(***************************************************************************)
MaxSkills == 20
MinSkillLen == 2
MaxSkillLen == 25

NL == In({"\n"})
NotNL == NotIn({"\n"})

skills_section_patterns ==
    << \* (?:Technical\s+Skills|Skills|Technologies|Programming\s+Languages)[\s:]*\n
       \*     ([^\n]+(?:\n[^\n]+)*?)(?:\n\s*\n|\Z)
       <<Alt(<<Lit("Technical", TRUE) \o <<Some(S)>> \o Lit("Skills", TRUE),
               Lit("Skills", TRUE),
               Lit("Technologies", TRUE),
               Lit("Programming", TRUE) \o <<Some(S)>> \o Lit("Languages", TRUE)>>),
         Many(In(Space \cup {":"})), One(NL)>>
         \o Group("1", <<Some(NotNL), Star(<<One(NL), Some(NotNL)>>, FALSE)>>)
         \o <<Alt(<< <<One(NL), Many(S), One(NL)>>, <<Eos>> >>)>>,
       \* (?:Skills|Technologies)[\s:]*([^\n]+)
       <<Alt(<<Lit("Skills", TRUE), Lit("Technologies", TRUE)>>),
         Many(In(Space \cup {":"}))>>
         \o Group("1", <<Some(NotNL)>>) >>

\* The keywords looked for in the text as written
taxonomy_skills_cased(text) ==
    LET hits == SelectSeq(skill_keywords, LAMBDA skill : Contains(text, lower(skill)))
    IN [j \in 1..Len(hits) |-> title(hits[j])]
\* lines 174-177: the title-cased keywords found in the text, in table order
taxonomy_skills(text) ==
    LET text_lower == lower(text)
        hits == SelectSeq(skill_keywords, LAMBDA skill : Contains(text_lower, lower(skill)))
    IN [j \in 1..Len(hits) |-> title(hits[j])]

\* lines 189-195: the skills taken from one captured section
section_skills(match) ==
    LET skills_text == replace(replace(replace(match, ",", " "), Bullet, " "), "-", " ")
        potential_skills == SplitOn(skills_text, {",", "\n", "|", Bullet, "-"})
        stripped == [j \in 1..Len(potential_skills) |-> strip(potential_skills[j])]
    IN SelectSeq(stripped, LAMBDA skill : Len(skill) > MinSkillLen /\ Len(skill) < MaxSkillLen)

RECURSIVE Flatten(_)
Flatten(lists) == IF lists = <<>> THEN <<>> ELSE Head(lists) \o Flatten(Tail(lists))

\* lines 185-195: the skills of every section captured by every pattern
RECURSIVE free_text_skills(_, _)
free_text_skills(text, k) ==
    IF k > Len(skills_section_patterns) THEN <<>>
    ELSE LET ms == finditer(skills_section_patterns[k], text)
         IN Flatten([j \in 1..Len(ms) |-> section_skills(group(text, ms[j], "1"))])
            \o free_text_skills(text, k + 1)

\* set.add of each element of a list, in turn, to an empty set
added(list) ==
    LET firsts == {j \in 1..Len(list) : \A i \in 1..(j - 1) : list[i] # list[j]}
        order == Sorted(firsts)
    IN [j \in 1..Len(order) |-> list[order[j]]]

skills_found(text) == added(taxonomy_skills(text) \o free_text_skills(text, 1))

\* The bag of the elements of a list at the positions `keep`
BagOf(list, keep) ==
    [x \in {list[j] : j \in keep} |-> Cardinality({j \in keep : list[j] = x})]

RECURSIVE Choose(_, _)
\* The subsets of T with n elements
Choose(T, n) ==
    IF n = 0 THEN {{}}
    ELSE IF Cardinality(T) < n THEN {}
    ELSE LET x == CHOOSE y \in T : TRUE
         IN Choose(T \ {x}, n) \cup {U \cup {x} : U \in Choose(T \ {x}, n - 1)}

\* list(a_set): every element of the set
whole_list(list, n) == {BagOf(list, 1..Len(list))}
\* list(a_set)[:n]: n elements of the set, whichever the enumeration puts first
any_prefix(list, n) ==
    IF Len(list) <= n THEN {BagOf(list, 1..Len(list))}
    ELSE {BagOf(list, (1..Len(list)) \ drop) : drop \in Choose(1..Len(list), Len(list) - n)}

\* The lists extract_skills may return
extract_skills(text) == any_prefix(skills_found(text), MaxSkills)

(***************************************************************************)
(* ParsedResume and extract_text_from_pdf                                  *)
(***************************************************************************)
NoSkills == BagOf(<<>>, {})

\* ParsedResume(...): total_experience in hundredths, skills as a bag
ParsedResume(n, e, p, t, c, sk, raw) ==
    [name |-> n, email |-> e, phone |-> p, total_experience |-> t,
     companies |-> c, skills |-> sk, raw_text |-> raw]
\* ParsedResume(raw_text=raw): the defaults of lines 19-31
DefaultResume(raw) == ParsedResume(None, None, None, 0, <<>>, NoSkills, raw)

\* lines 72-76: the text of the pages that have any, each followed by "\n"
RECURSIVE pages_text(_)
pages_text(pages) ==
    IF pages = <<>> THEN ""
    ELSE (IF Head(pages) # "" THEN Head(pages) \o "\n" ELSE "") \o pages_text(Tail(pages))

\* An error of the reader is not caught
extract_text_raising(pages, can_read) ==
    IF can_read THEN strip(pages_text(pages)) ELSE Raised
\* The text is returned as read
extract_text_unstripped(pages, can_read) ==
    IF can_read THEN pages_text(pages) ELSE ""
\* extract_text_from_pdf: an error of the reader is caught and gives ""
extract_text_from_pdf(pages, can_read) ==
    IF can_read THEN strip(pages_text(pages)) ELSE ""

(***************************************************************************)
(* parse_resume: the section scan                                          *)
(***************************************************************************)
\* The labels in alphabetical order
Sections_sorted == <<"email", "experience", "name", "phone", "skills">>
\* clue_words, in the order of the dict
Sections == <<"skills", "experience", "name", "email", "phone">>
clue_words ==
    [section \in {Sections[j] : j \in 1..Len(Sections)} |->
        CASE section = "skills" ->
                {"skills", "technologies", "tools", "proficiencies", "languages",
                 "technical proficiency"}
          [] section = "experience" ->
                {"experience", "worked for", "internship", "employment", "project", "work"}
          [] section = "name" -> {"name"}
          [] section = "email" -> {"email"}
          [] section = "phone" -> {"phone", "mobile", "contact", "tel"}]
Buckets == {"skills", "experience", "name", "email", "phone", "other"}

\* lines 230-236: the first section one of whose clues is in the line, or None
matched_section(line) ==
    LET clean_line == lower(strip(line))
        hits == {j \in 1..Len(Sections) :
                    \E clue \in clue_words[Sections[j]] : Contains(clean_line, clue)}
    IN IF hits = {} THEN None ELSE Sections[Min(hits)]

\* The section of the line alone: the current section is not carried forward
next_section_uncarried(current, line) ==
    IF matched_section(line) # None THEN matched_section(line) ELSE "other"
\* lines 238-239
next_section(current, line) ==
    IF matched_section(line) # None THEN matched_section(line) ELSE current

\* `text or raw`
OrElse(text, raw) == IF text # "" THEN text ELSE raw

\* lines 246-250: the first line that is upper case and has 2 to 4 words
RECURSIVE upper_name(_, _)
upper_name(ls, i) ==
    IF i > Len(ls) THEN None
    ELSE IF isupper(strip(ls[i])) /\ 1 < WordCount(strip(ls[i])) /\ WordCount(strip(ls[i])) < 5
         THEN strip(ls[i])
         ELSE upper_name(ls, i + 1)

\* The texts the extractors are given: lines 244, 254-258
name_text(buckets, raw) == OrElse(join("\n", Prefix(buckets["name"], NameLines)), raw)
email_text(buckets, raw) == OrElse(join("\n", buckets["email"]), raw)
phone_text(buckets, raw) == OrElse(join("\n", buckets["phone"]), raw)
experience_text(buckets, raw) == join("\n", buckets["experience"])
companies_text(buckets, raw) == join("\n", buckets["experience"])
skills_text(buckets, raw) == join("\n", buckets["skills"])

(***************************************************************************)
(* The documents parse_resume is given                                     *)
(***************************************************************************)
MaxLines == 2

\* Every sequence of 1..n elements of the sequence `pool`
RECURSIVE SeqsUpTo(_, _)
SeqsUpTo(pool, n) ==
    IF n = 0 THEN {}
    ELSE LET shorter == SeqsUpTo(pool, n - 1)
         IN {<<pool[j]>> : j \in 1..Len(pool)}
            \cup {Append(q, pool[j]) : q \in shorter, j \in 1..Len(pool)}

ResumeLines ==
    << "John Smith",
       "JANE DOE",
       "Name: Mary Ann Lee",
       "Email: jane.doe@email.com",
       "bob@site.org (555) 987-6543",
       "Phone 555-123-4567",
       "Contact me by email",
       "Experience: 7 years of experience",
       "Acme Inc, 2018 - Present",
       "Skills: Python, Django",
       "Java and SQL, 2 years",
       "Work experience with tools",
       "Languages: project names",
       "" >>

JaneDoe ==
    "Jane Doe\njane.doe@email.com\n(555) 987-6543\n\nExperience: 7 years of experience\n\nWork History:\nAmazing Company Inc, 2018 - Present\n\nSkills: Python, Django, PostgreSQL"

NoClues == "John Smith\nPython and Django\nAcme Inc, 2018 - 2020\n5 years"

\* A PDF is the sequence of the texts of its pages
Documents ==
    {<<join("\n", ls)>> : ls \in SeqsUpTo(ResumeLines, MaxLines)}
    \cup {<<JaneDoe>>, <<NoClues>>, <<>>, <<"", "  \n ">>,
          <<"  John Smith\nContact: 555-123-4567", "", "Tools: Docker and AWS\n">>}

(***************************************************************************)
(* parse_resume, step by step                                              *)
(***************************************************************************)
\* lines 37-65: the tables of the parser
ParserTables ==
    [patterns |-> [email |-> email_pattern, phone |-> phone_pattern],
     skill_keywords |-> skill_keywords]
\* A server with no database yet, and no connection to it
EmptyStore ==
    [database |-> FALSE, reliable |-> TRUE, next_id |-> 1, job_seeker |-> <<>>,
     job_seeker_experience |-> <<>>, job_seeker_skills |-> <<>>]
NoRows == [job_seeker |-> <<>>, job_seeker_experience |-> <<>>, job_seeker_skills |-> <<>>]
NoConnection ==
    [state |-> "none", pending |-> NoRows, statements |-> <<>>, commits |-> 0]
NoFrame ==
    [before |-> EmptyStore, cursor |-> FALSE, job_seeker_id |-> <<>>, done |-> 0,
     error |-> None]

NoFolder ==
    /\ folder = Missing
    /\ pdf_files = <<>>
    /\ parsed_resumes = <<>>
NoPool ==
    /\ parser = ParserTables
    /\ parses = <<>>
    /\ heap = <<>>
NoDatabaseCall ==
    /\ store = EmptyStore
    /\ connection = NoConnection
    /\ frame = NoFrame
NoProcess ==
    /\ success_count = 0
    /\ processed = <<>>
\* Nothing but the call is under way
AtRest == NoFolder /\ NoPool /\ NoDatabaseCall /\ NoProcess

NoBuckets == [b \in Buckets |-> <<>>]

Init ==
    /\ pc = "start"
    /\ document \in Documents
    /\ readable \in BOOLEAN
    /\ raw_text = ""
    /\ lines = <<>>
    /\ idx = 0
    /\ current_section = "other"
    /\ section_lines = NoBuckets
    /\ name = None
    /\ parsed = Pending
    /\ calls = {}
    /\ fn = None
    /\ input = None
    /\ result = None
    /\ AtRest

\* lines 203-228: the text is read; with no text the defaults are returned
ExtractText ==
    /\ pc = "start"
    /\ LET text == extract_text_from_pdf(document, readable)
       IN IF text = Raised
          THEN /\ pc' = "raised"
               /\ UNCHANGED <<raw_text, lines, parsed>>
          ELSE /\ raw_text' = text
               /\ IF text = ""
                  THEN /\ parsed' = DefaultResume(text)
                       /\ pc' = "done"
                       /\ lines' = lines
                  ELSE /\ lines' = split_lines(text)
                       /\ pc' = "scan"
                       /\ parsed' = parsed
    /\ UNCHANGED <<document, readable, idx, current_section, section_lines, name,
                   calls, fn, input, result>>
    /\ UNCHANGED surroundings

\* A turn of the loop that files no blank line
ScanLine_skipping_blank ==
    /\ pc = "scan"
    /\ idx < Len(lines)
    /\ LET line == lines[idx + 1]
           section == next_section(current_section, line)
       IN /\ current_section' = section
          /\ section_lines' = IF strip(line) = "" THEN section_lines
                              ELSE [section_lines EXCEPT ![section] = Append(@, strip(line))]
    /\ idx' = idx + 1
    /\ pc' = IF idx + 1 = Len(lines) THEN "name" ELSE "scan"
    /\ calls' = calls \cup {"scan"}
    /\ UNCHANGED <<document, readable, raw_text, lines, name, parsed, fn, input, result>>
    /\ UNCHANGED surroundings
\* lines 229-241: one turn of the loop over the lines
ScanLine ==
    /\ pc = "scan"
    /\ idx < Len(lines)
    /\ LET line == lines[idx + 1]
           section == next_section(current_section, line)
       IN /\ current_section' = section
          /\ section_lines' = [section_lines EXCEPT ![section] = Append(@, strip(line))]
    /\ idx' = idx + 1
    /\ pc' = IF idx + 1 = Len(lines) THEN "name" ELSE "scan"
    /\ calls' = calls \cup {"scan"}
    /\ UNCHANGED <<document, readable, raw_text, lines, name, parsed, fn, input, result>>
    /\ UNCHANGED surroundings

\* The first upper-case line is preferred to the name found
FindName_upper_first ==
    /\ pc = "name"
    /\ LET found == extract_name(name_text(section_lines, raw_text))
       IN name' = IF upper_name(lines, 1) # None THEN upper_name(lines, 1) ELSE found
    /\ pc' = "build"
    /\ calls' = calls \cup {"extract_name"}
    /\ UNCHANGED <<document, readable, raw_text, lines, idx, current_section,
                   section_lines, parsed, fn, input, result>>
    /\ UNCHANGED surroundings
\* lines 244-250: the name, or else the first upper-case line
FindName ==
    /\ pc = "name"
    /\ LET found == extract_name(name_text(section_lines, raw_text))
       IN name' = IF found # None THEN found ELSE upper_name(lines, 1)
    /\ pc' = "build"
    /\ calls' = calls \cup {"extract_name"}
    /\ UNCHANGED <<document, readable, raw_text, lines, idx, current_section,
                   section_lines, parsed, fn, input, result>>
    /\ UNCHANGED surroundings

\* lines 252-263: the other extractors, and the record returned
Build ==
    /\ pc = "build"
    /\ \E skills \in extract_skills(skills_text(section_lines, raw_text)) :
          parsed' = ParsedResume(
              name,
              extract_email(email_text(section_lines, raw_text)),
              extract_phone(phone_text(section_lines, raw_text)),
              extract_experience_years(experience_text(section_lines, raw_text)),
              extract_companies(companies_text(section_lines, raw_text)),
              skills,
              raw_text)
    /\ pc' = "done"
    /\ calls' = calls \cup {"extract_email", "extract_phone", "extract_experience_years",
                           "extract_companies", "extract_skills"}
    /\ UNCHANGED <<document, readable, raw_text, lines, idx, current_section,
                   section_lines, name, fn, input, result>>
    /\ UNCHANGED surroundings

Next == ExtractText \/ ScanLine \/ FindName \/ Build

Spec == Init /\ [][Next]_vars
\* A call, once started, runs on: until it returns or raises it takes the
\* next step of its code, and every step of Next moves pc or idx.
Positions == {"start", "scan", "name", "build", "done", "raised"}
Proceed ==
    /\ pc \notin {"done", "raised"}
    /\ pc' \in Positions
    /\ idx' \in {idx, idx + 1}
    /\ <<pc', idx'>> # <<pc, idx>>
FairSpec == Spec /\ WF_<<pc, idx>>(Proceed)

(***************************************************************************)
(* One extractor called on its own                                         *)
(***************************************************************************)
NoParse ==
    /\ document = <<>>
    /\ readable = TRUE
    /\ raw_text = ""
    /\ lines = <<>>
    /\ idx = 0
    /\ current_section = "other"
    /\ section_lines = NoBuckets
    /\ name = None
    /\ parsed = Pending
    /\ calls = {}
Idle == NoParse /\ AtRest

InitCall(f, inputs) ==
    /\ pc = "call"
    /\ fn = f
    /\ input \in inputs
    /\ result = None
    /\ Idle

Return(value) ==
    /\ result' = value
    /\ pc' = "returned"
    /\ UNCHANGED <<document, readable, raw_text, lines, idx, current_section,
                   section_lines, name, parsed, calls, fn, input>>
    /\ UNCHANGED surroundings

Returned(f) == pc = "returned" /\ fn = f

\* -- extract_experience_years: statements of a duration, one per line ------
MaxStatements == 2

\* Each statement with the years it states, in hundredths
ExperienceStatements ==
    << [text |-> "5 years of experience", years |-> 500],
       [text |-> "3 years of experience", years |-> 300],
       [text |-> "5 years of experience and 3 years of experience", years |-> 500],
       [text |-> "6 months of experience", years |-> 50],
       [text |-> "2 years and 6 months", years |-> 250],
       [text |-> "Experience: 7+ years in web development", years |-> 700],
       [text |-> "4 yrs exp", years |-> 400],
       [text |-> "1.5 Years", years |-> 150],
       [text |-> "1 year and 1 month", years |-> 108],
       [text |-> "no duration is stated here", years |-> 0] >>

ExperienceTexts ==
    {join("\n", [j \in 1..Len(q) |-> q[j].text]) : q \in SeqsUpTo(ExperienceStatements, MaxStatements)}

InitExperience == InitCall("extract_experience_years", ExperienceTexts)
CallExperience ==
    /\ pc = "call"
    /\ fn = "extract_experience_years"
    /\ Return(extract_experience_years(input))
SpecExperience == InitExperience /\ [][CallExperience]_vars

\* -- extract_companies: company lines --------------------------------------
MaxCompanyLines == 2
ListedCompanies == 7

CompanyLines ==
    << "Tech Corp, 2020 - Present",
       "TECH CORP, 2020-Present",
       "tech corp 2019 ~ 2020",
       "Alpha, 2010 - Current",
       "Beta Inc, 2011 - 2012",
       "BETA INC - 2015-2016",
       "Dunder & Mifflin Company 2001 - 2003",
       "Senior Developer" >>

CompanyNames ==
    <<"Alpha", "Beta", "Gamma", "Delta", "Epsilon", "Zeta", "Eta", "Theta", "Iota">>
CompanyYears ==
    <<"2019 - Present", "2017 - 2019", "2015 - 2017", "2013 - 2015", "2011 - 2013",
      "2009 - 2011", "2007 - 2009", "2005 - 2007", "2003 - 2005">>

\* The j-th listed company, with a corporate suffix when j is in `suffixed`
ListedName(j, suffixed) == CompanyNames[j] \o (IF j \in suffixed THEN " Inc" ELSE "")
ListedLine(j, suffixed) == ListedName(j, suffixed) \o ", " \o CompanyYears[j]
\* A document listing ListedCompanies distinct companies, one per line
Listing(suffixed) == join("\n", [j \in 1..ListedCompanies |-> ListedLine(j, suffixed)])

CompanyTexts ==
    {join("\n", q) : q \in SeqsUpTo(CompanyLines, MaxCompanyLines)}
    \cup {Listing(suffixed) : suffixed \in SUBSET (1..ListedCompanies)}

InitCompanies == InitCall("extract_companies", CompanyTexts)
CallCompanies ==
    /\ pc = "call"
    /\ fn = "extract_companies"
    /\ Return(extract_companies(input))
SpecCompanies == InitCompanies /\ [][CallCompanies]_vars

\* -- extract_skills: lines of a skills section ------------------------------
MaxSkillLines == 2

SkillLines ==
    << "PYTHON",
       "Skills: Python, Django, PostgreSQL",
       "Technical Skills:",
       "Python, JavaScript, SQL, React, Node.js",
       "Technologies: Team work | Agile-Scrum ^ Rust",
       "power bi and c#",
       "" >>

\* Texts that name more skills than extract_skills returns
ManySkills ==
    "java typescript php ruby swift kotlin scala matlab mysql html css\nREACT Angular Vue Flask Spring AWS Docker Redis Oracle"
ManySkillsListed ==
    "Skills:\nHtml | Css | Php | Aws | Gcp | Vue | Ruby | Java | Rust | Perl | Bash\nSwift | Scala | Redis | Flask | Rails | Numpy | Azure | React | Linux | Excel | Latex"

SkillTexts ==
    {join("\n", q) : q \in SeqsUpTo(SkillLines, MaxSkillLines)}
    \cup {ManySkills, ManySkillsListed}

InitSkills == InitCall("extract_skills", SkillTexts)
CallSkills ==
    /\ pc = "call"
    /\ fn = "extract_skills"
    /\ \E skills \in extract_skills(input) : Return(skills)
SpecSkills == InitSkills /\ [][CallSkills]_vars

\* -- extract_email: fragments of text, each with the addresses it holds -----
MaxEmailLines == 2

EmailFragments ==
    << [text |-> "Contact me at john.doe@example.com for more information.",
        addresses |-> <<"john.doe@example.com">>],
       [text |-> "Email: jane.doe@email.com", addresses |-> <<"jane.doe@email.com">>],
       [text |-> "<bob_smith+cv@mail.example.co.uk>.",
        addresses |-> <<"bob_smith+cv@mail.example.co.uk">>],
       [text |-> "(ann99@site.io), a.b-c@sub-domain.org",
        addresses |-> <<"ann99@site.io", "a.b-c@sub-domain.org">>],
       [text |-> "Jane Doe|jane.doe@email.com|Boston", addresses |-> <<"jane.doe@email.com">>],
       [text |-> "bob@site.org|555-123-4567", addresses |-> <<"bob@site.org">>],
       [text |-> "twitter: @handle", addresses |-> <<>>],
       [text |-> "user at example dot com", addresses |-> <<>>],
       [text |-> "x@y 10%", addresses |-> <<>>],
       [text |-> "", addresses |-> <<>>] >>

EmailTexts ==
    {join("\n", [j \in 1..Len(q) |-> q[j].text]) : q \in SeqsUpTo(EmailFragments, MaxEmailLines)}

InitEmail == InitCall("extract_email", EmailTexts)
CallEmail ==
    /\ pc = "call"
    /\ fn = "extract_email"
    /\ Return(extract_email(input))
SpecEmail == InitEmail /\ [][CallEmail]_vars

\* -- extract_name: lines that may be a name, after some lines that are not --
MaxFillers == 5
MaxNameLines == 2

\* Each line with the name it is, if it has the shape of one
NameCandidates ==
    << [text |-> "John Smith", named |-> "John Smith"],
       [text |-> "  Mary Ann Lee  ", named |-> "Mary Ann Lee"],
       [text |-> "Software Engineer", named |-> "Software Engineer"],
       [text |-> "JANE DOE", named |-> "JANE DOE"],
       [text |-> "Al Bo", named |-> "Al Bo"],
       [text |-> "jane doe", named |-> None],
       [text |-> "Dr. Who", named |-> None],
       [text |-> "John Smith Jr III", named |-> None],
       [text |-> "Summary: Experienced developer...", named |-> None],
       [text |-> "", named |-> None] >>
Filler == "curriculum vitae"

NameTexts ==
    {join("\n", [j \in 1..k |-> Filler] \o [j \in 1..Len(q) |-> q[j].text]) :
        k \in 0..MaxFillers, q \in SeqsUpTo(NameCandidates, MaxNameLines)}

InitName == InitCall("extract_name", NameTexts)
CallName ==
    /\ pc = "call"
    /\ fn = "extract_name"
    /\ Return(extract_name(input))
SpecName == InitName /\ [][CallName]_vars

(***************************************************************************)
(* parse_resume as one call, and parse_resumes_from_folder                 *)
(***************************************************************************)
\* lines 219-241: the section and the buckets after the first n lines
RECURSIVE scan(_, _)
scan(ls, n) ==
    IF n = 0 THEN [current_section |-> "other", section_lines |-> NoBuckets]
    ELSE LET before == scan(ls, n - 1)
             section == next_section(before.current_section, ls[n])
         IN [current_section |-> section,
             section_lines |-> [before.section_lines EXCEPT ![section] = Append(@, strip(ls[n]))]]

\* lines 199-263: the records parse_resume may return for a document
parse_resume(pages, can_read) ==
    LET raw == extract_text_from_pdf(pages, can_read)
    IN IF raw = "" THEN {DefaultResume(raw)}
       ELSE LET ls == split_lines(raw)
                buckets == scan(ls, Len(ls)).section_lines
                found == extract_name(name_text(buckets, raw))
            IN {ParsedResume(
                    IF found # None THEN found ELSE upper_name(ls, 1),
                    extract_email(email_text(buckets, raw)),
                    extract_phone(phone_text(buckets, raw)),
                    extract_experience_years(experience_text(buckets, raw)),
                    extract_companies(companies_text(buckets, raw)),
                    skills,
                    raw) : skills \in extract_skills(skills_text(buckets, raw))}

\* str.endswith
endswith(s, suffix) ==
    Len(s) >= Len(suffix) /\ SubSeq(s, Len(s) - Len(suffix) + 1, Len(s)) = suffix
\* The name is compared as written
is_pdf_cased(file) == endswith(file.name, ".pdf")
\* line 274: f.lower().endswith('.pdf')
is_pdf(file) == endswith(lower(file.name), ".pdf")

MaxFiles == 3
\* The files a folder may hold: a name, the pages' texts, whether readable
Files ==
    << [name |-> "a.pdf", pages |-> <<"John Smith\nSkills: Python">>, readable |-> TRUE],
       [name |-> "B.PDF", pages |-> <<"Email: bob@site.org", "Acme Inc, 2018 - Present">>,
        readable |-> TRUE],
       [name |-> "notes.txt", pages |-> <<"John Smith">>, readable |-> TRUE],
       [name |-> "broken.pdf", pages |-> <<"John Smith">>, readable |-> FALSE],
       [name |-> "cv.pdf.bak", pages |-> <<"JANE DOE">>, readable |-> TRUE],
       [name |-> "blank.Pdf", pages |-> <<"">>, readable |-> TRUE] >>
\* os.listdir: up to MaxFiles files, no name twice, in any order
Folders ==
    {[exists |-> TRUE, listing |-> q] :
        q \in {<<>>} \cup {q \in SeqsUpTo(Files, MaxFiles) :
                               \A i, j \in 1..Len(q) : i # j => q[i].name # q[j].name}}

InitFolder ==
    /\ pc = "folder"
    /\ fn = "parse_resumes_from_folder"
    /\ input = None
    /\ result = None
    /\ NoParse
    /\ folder \in Folders \cup {Missing}
    /\ pdf_files = <<>>
    /\ parsed_resumes = <<>>
    /\ NoPool
    /\ NoProcess
    /\ NoDatabaseCall

\* lines 268-275: no folder, no records; else the PDF files of the listing
ListFolder ==
    /\ pc = "folder"
    /\ IF ~folder.exists
       THEN /\ result' = parsed_resumes
            /\ pc' = "returned"
            /\ UNCHANGED pdf_files
       ELSE /\ pdf_files' = SelectSeq(folder.listing, is_pdf)
            /\ pc' = "files"
            /\ UNCHANGED result
    /\ UNCHANGED <<parse_vars, fn, input, folder, parsed_resumes, pool_vars, db_vars, main_vars>>

\* lines 277-280: the next file is parsed and its record appended
ParseFile ==
    /\ pc = "files"
    /\ Len(parsed_resumes) < Len(pdf_files)
    /\ LET pdf_file == pdf_files[Len(parsed_resumes) + 1]
       IN \E parsed_resume \in parse_resume(pdf_file.pages, pdf_file.readable) :
             parsed_resumes' = Append(parsed_resumes, parsed_resume)
    /\ UNCHANGED <<pc, parse_vars, fn, input, result, folder, pdf_files, pool_vars, db_vars, main_vars>>

\* line 282
ReturnResumes ==
    /\ pc = "files"
    /\ Len(parsed_resumes) = Len(pdf_files)
    /\ result' = parsed_resumes
    /\ pc' = "returned"
    /\ UNCHANGED <<parse_vars, fn, input, folder, pdf_files, parsed_resumes, pool_vars, db_vars, main_vars>>

NextFolder == ListFolder \/ ParseFile \/ ReturnResumes
SpecFolder == InitFolder /\ [][NextFolder]_vars

(***************************************************************************)
(* Calls of parse_resume under way together                                *)
(*                                                                         *)
(* Each call has its own locals.  The companies and skills of a record are *)
(* list objects: the record holds references into the heap.                *)
(***************************************************************************)
MaxParses == 2
Callers == 1..MaxParses

PoolDocuments ==
    { [pages |-> <<"John Smith\nSkills: Python">>, readable |-> TRUE],
      [pages |-> <<"Email: bob@site.org", "Acme Inc, 2018 - Present">>, readable |-> TRUE],
      [pages |-> <<"John Smith">>, readable |-> FALSE],
      [pages |-> <<"  ">>, readable |-> TRUE] }

\* An equal list already on the heap is used again
shared_list(h, contents) ==
    IF \E j \in 1..Len(h) : h[j] = contents
    THEN [heap |-> h, ref |-> Min({j \in 1..Len(h) : h[j] = contents})]
    ELSE [heap |-> Append(h, contents), ref |-> Len(h) + 1]
\* lines 27-31, 166, 197: a list is a new object
new_list(h, contents) == [heap |-> Append(h, contents), ref |-> Len(h) + 1]

\* A record whose lists are put on the heap
Allocated(h, record) ==
    LET companies == new_list(h, record.companies)
        skills == new_list(companies.heap, record.skills)
    IN [heap |-> skills.heap,
        record |-> [record EXCEPT !.companies = companies.ref, !.skills = skills.ref]]
\* The record with its lists read from the heap
Dereferenced(h, record) ==
    [record EXCEPT !.companies = h[record.companies], !.skills = h[record.skills]]

Locals(doc) ==
    [pc |-> "start", document |-> doc.pages, readable |-> doc.readable, raw_text |-> "",
     lines |-> <<>>, idx |-> 0, current_section |-> "other", section_lines |-> NoBuckets,
     name |-> None, parsed |-> Pending]

InitParses ==
    /\ pc = "parses"
    /\ fn = "parse_resume"
    /\ input = None
    /\ result = None
    /\ NoParse
    /\ NoFolder
    /\ NoProcess
    /\ NoDatabaseCall
    /\ parser = ParserTables
    /\ parses \in [Callers -> {Locals(doc) : doc \in PoolDocuments}]
    /\ heap = <<>>

\* lines 203-228 of the call of caller p
ExtractTextOf(p) ==
    /\ parses[p].pc = "start"
    /\ LET text == extract_text_from_pdf(parses[p].document, parses[p].readable)
       IN IF text = ""
          THEN LET made == Allocated(heap, DefaultResume(text))
               IN /\ heap' = made.heap
                  /\ parses' = [parses EXCEPT ![p].raw_text = text,
                                              ![p].parsed = made.record,
                                              ![p].pc = "done"]
          ELSE /\ parses' = [parses EXCEPT ![p].raw_text = text,
                                           ![p].lines = split_lines(text),
                                           ![p].pc = "scan"]
               /\ heap' = heap
    /\ UNCHANGED <<pc, parse_vars, fn, input, result, folder_vars, parser, db_vars, main_vars>>

\* lines 229-241 of the call of caller p
ScanLineOf(p) ==
    /\ parses[p].pc = "scan"
    /\ parses[p].idx < Len(parses[p].lines)
    /\ LET line == parses[p].lines[parses[p].idx + 1]
           section == next_section(parses[p].current_section, line)
       IN parses' = [parses EXCEPT
              ![p].current_section = section,
              ![p].section_lines[section] = Append(@, strip(line)),
              ![p].idx = @ + 1,
              ![p].pc = IF parses[p].idx + 1 = Len(parses[p].lines) THEN "name" ELSE "scan"]
    /\ UNCHANGED <<pc, parse_vars, fn, input, result, folder_vars, parser, heap, db_vars, main_vars>>

\* lines 244-250 of the call of caller p
FindNameOf(p) ==
    /\ parses[p].pc = "name"
    /\ LET found == extract_name(name_text(parses[p].section_lines, parses[p].raw_text))
       IN parses' = [parses EXCEPT
              ![p].name = IF found # None THEN found ELSE upper_name(parses[p].lines, 1),
              ![p].pc = "build"]
    /\ UNCHANGED <<pc, parse_vars, fn, input, result, folder_vars, parser, heap, db_vars, main_vars>>

\* lines 252-263 of the call of caller p
BuildOf(p) ==
    /\ parses[p].pc = "build"
    /\ LET buckets == parses[p].section_lines
           raw == parses[p].raw_text
       IN \E skills \in extract_skills(skills_text(buckets, raw)) :
             LET made == Allocated(heap, ParsedResume(
                             parses[p].name,
                             extract_email(email_text(buckets, raw)),
                             extract_phone(phone_text(buckets, raw)),
                             extract_experience_years(experience_text(buckets, raw)),
                             extract_companies(companies_text(buckets, raw)),
                             skills,
                             raw))
             IN /\ heap' = made.heap
                /\ parses' = [parses EXCEPT ![p].parsed = made.record, ![p].pc = "done"]
    /\ UNCHANGED <<pc, parse_vars, fn, input, result, folder_vars, parser, db_vars, main_vars>>

NextParses ==
    \E p \in Callers : ExtractTextOf(p) \/ ScanLineOf(p) \/ FindNameOf(p) \/ BuildOf(p)
SpecParses == InitParses /\ [][NextParses]_vars

(***************************************************************************)
(* The database calls of src/db_utils.py                                   *)
(*                                                                         *)
(* store is what the server has committed; the rows a connection has       *)
(* inserted and not committed are its pending rows, lost when it closes.   *)
(* A server that is not reliable may answer any request with an Error.     *)
(* An Optional[int] is <<>> for None and <<id>> for an id.                 *)
(***************************************************************************)
MaxRows == 1

\* The rows the server holds before the call: up to MaxRows job seekers
StoredEmails == <<"john@example.com", "mary@site.org", "old@site.org">>
StoredRows(n) ==
    [job_seeker |->
        [j \in 1..n |-> [id |-> j, name |-> "John Doe", email |-> StoredEmails[j],
                         phone |-> None, total_experience |-> 500, resume_text |-> "cv"]],
     job_seeker_experience |->
        [j \in 1..n |-> [job_seeker_id |-> j, company_name |-> "Old Corp", tenure |-> "2010-2012"]],
     job_seeker_skills |-> <<>>]
Stores ==
    {[database |-> FALSE, reliable |-> r, next_id |-> 1, job_seeker |-> <<>>,
      job_seeker_experience |-> <<>>, job_seeker_skills |-> <<>>] : r \in BOOLEAN}
    \cup {[database |-> TRUE, reliable |-> r, next_id |-> n + 1,
           job_seeker |-> StoredRows(n).job_seeker,
           job_seeker_experience |-> StoredRows(n).job_seeker_experience,
           job_seeker_skills |-> <<>>] : r \in BOOLEAN, n \in 0..MaxRows}

JobSeekerData ==
    { [name |-> "John Doe", email |-> "john@example.com", phone |-> "123-456-7890",
       total_experience |-> 500, resume_text |-> "Resume text",
       experiences |-> <<[company_name |-> "Tech Corp", tenure |-> "2020-2023"],
                         [company_name |-> "StartupXYZ", tenure |-> "2018-2020"]>>,
       skills |-> <<"Python", "JavaScript", "SQL">>],
      [name |-> "Jane Roe", email |-> None, phone |-> None, total_experience |-> 0,
       resume_text |-> "Jane Roe", experiences |-> <<>>, skills |-> <<"Python">>],
      [name |-> "Mary Lee", email |-> "mary@site.org", phone |-> None,
       total_experience |-> 250, resume_text |-> "Mary Lee"],
      [name |-> None, email |-> "ann@site.org", phone |-> None, total_experience |-> 0,
       resume_text |-> "ann", experiences |-> <<>>, skills |-> <<>>],
      [name |-> "Bob Ray", email |-> "bob@site.org", phone |-> None, total_experience |-> 100,
       resume_text |-> "Bob Ray",
       experiences |-> <<[company_name |-> "Acme Inc", tenure |-> "2019 - 2020"],
                         [company_name |-> None, tenure |-> "2018"]>>,
       skills |-> <<"Java">>] }

\* dict.get(key, [])
get(data, key) == IF key \in DOMAIN data THEN data[key] ELSE <<>>

InitDatabaseCall ==
    /\ pc = "connect"
    /\ \/ fn = "create_database" /\ input = None
       \/ fn = "insert_job_seeker_complete" /\ input \in JobSeekerData
    /\ result = None
    /\ NoParse
    /\ NoFolder
    /\ NoPool
    /\ NoProcess
    /\ store \in Stores
    /\ connection = NoConnection
    /\ frame = [NoFrame EXCEPT !.before = store]

\* Whether the server carries a request out (TRUE) or answers with an Error
Replies == IF store.reliable THEN {TRUE} ELSE BOOLEAN
OpenConnection == [NoConnection EXCEPT !.state = "open"]
beyond_db == <<parse_vars, folder_vars, pool_vars, main_vars, fn, input>>

\* lines 21-35: mysql.connector.connect to the server
GetConnection ==
    /\ pc = "connect"
    /\ fn = "create_database"
    /\ \E ok \in Replies :
          IF ok
          THEN /\ connection' = OpenConnection
               /\ pc' = "cursor"
               /\ frame' = frame
          ELSE /\ frame' = [frame EXCEPT !.error = "connect"]
               /\ pc' = "handler"
               /\ connection' = connection
    /\ UNCHANGED <<beyond_db, store, result>>

\* lines 67-80: mysql.connector.connect to the database, which must exist
ConnectToDatabase ==
    /\ pc = "connect"
    /\ fn = "insert_job_seeker_complete"
    /\ \E ok \in Replies :
          IF ok /\ store.database
          THEN /\ connection' = OpenConnection
               /\ pc' = "cursor"
               /\ frame' = frame
          ELSE /\ frame' = [frame EXCEPT !.error = "connect"]
               /\ pc' = "handler"
               /\ connection' = connection
    /\ UNCHANGED <<beyond_db, store, result>>

\* lines 40-46: connection.cursor()
GetCursor ==
    /\ pc = "cursor"
    /\ \E ok \in Replies :
          IF ok
          THEN /\ frame' = [frame EXCEPT !.cursor = TRUE]
               /\ pc' = IF fn = "create_database" THEN "create" ELSE "begin"
          ELSE /\ frame' = [frame EXCEPT !.error = "cursor"]
               /\ pc' = "unwind"
    /\ UNCHANGED <<beyond_db, store, connection, result>>

\* line 59: CREATE DATABASE IF NOT EXISTS, which the server commits itself
CreateDatabase ==
    /\ pc = "create"
    /\ \E ok \in Replies :
          IF ok
          THEN /\ store' = [store EXCEPT !.database = TRUE]
               /\ connection' = [connection EXCEPT
                     !.statements = Append(@, "CREATE DATABASE IF NOT EXISTS")]
               /\ pc' = "commit"
               /\ frame' = frame
          ELSE /\ frame' = [frame EXCEPT !.error = "execute"]
               /\ pc' = "unwind"
               /\ UNCHANGED <<store, connection>>
    /\ UNCHANGED <<beyond_db, result>>

\* line 191: connection.start_transaction()
StartTransaction ==
    /\ pc = "begin"
    /\ \E ok \in Replies :
          IF ok
          THEN /\ pc' = "insert_seeker"
               /\ frame' = frame
          ELSE /\ frame' = [frame EXCEPT !.error = "begin"]
               /\ pc' = "unwind"
    /\ UNCHANGED <<beyond_db, store, connection, result>>

\* lines 198-204, 209-212, 216-219: the rows inserted
seeker_row(id, data) ==
    [id |-> id, name |-> data.name, email |-> data.email, phone |-> data.phone,
     total_experience |-> data.total_experience, resume_text |-> data.resume_text]
experience_row(id, experience) ==
    [job_seeker_id |-> id, company_name |-> experience.company_name,
     tenure |-> experience.tenure]
skill_row(id, skill) == [job_seeker_id |-> id, skill |-> skill]

\* lines 86-95: name is NOT NULL and email is UNIQUE (NULL apart)
SeekerAccepted(data) ==
    /\ data.name # None
    /\ \/ data.email = None
       \/ \A rows \in {store.job_seeker, connection.pending.job_seeker} :
             \A j \in 1..Len(rows) : rows[j].email # data.email

\* The loop the call goes on with, the job seeker being inserted
AfterSeeker(data) ==
    IF Len(get(data, "experiences")) > 0 THEN "insert_experience"
    ELSE IF Len(get(data, "skills")) > 0 THEN "insert_skill"
    ELSE "commit"
AfterExperiences(data) == IF Len(get(data, "skills")) > 0 THEN "insert_skill" ELSE "commit"

\* lines 194-205: INSERT INTO job_seeker, and cursor.lastrowid
InsertSeeker ==
    /\ pc = "insert_seeker"
    /\ \E ok \in Replies :
          IF ok /\ SeekerAccepted(input)
          THEN /\ connection' = [connection EXCEPT
                     !.pending.job_seeker = Append(@, seeker_row(store.next_id, input))]
               /\ store' = [store EXCEPT !.next_id = @ + 1]
               /\ frame' = [frame EXCEPT !.job_seeker_id = <<store.next_id>>, !.done = 0]
               /\ pc' = AfterSeeker(input)
          ELSE /\ frame' = [frame EXCEPT !.error = "job_seeker"]
               /\ pc' = "unwind"
               /\ UNCHANGED <<store, connection>>
    /\ UNCHANGED <<beyond_db, result>>

\* lines 208-212: INSERT INTO job_seeker_experience (company_name NOT NULL)
InsertExperience ==
    /\ pc = "insert_experience"
    /\ LET experiences == get(input, "experiences")
           experience == experiences[frame.done + 1]
       IN \E ok \in Replies :
             IF ok /\ experience.company_name # None
             THEN /\ connection' = [connection EXCEPT
                        !.pending.job_seeker_experience =
                            Append(@, experience_row(frame.job_seeker_id[1], experience))]
                  /\ IF frame.done + 1 = Len(experiences)
                     THEN /\ frame' = [frame EXCEPT !.done = 0]
                          /\ pc' = AfterExperiences(input)
                     ELSE /\ frame' = [frame EXCEPT !.done = @ + 1]
                          /\ pc' = pc
             ELSE /\ frame' = [frame EXCEPT !.error = "job_seeker_experience"]
                  /\ pc' = "unwind"
                  /\ connection' = connection
    /\ UNCHANGED <<beyond_db, store, result>>

\* lines 215-219: INSERT INTO job_seeker_skills (skill NOT NULL)
InsertSkill ==
    /\ pc = "insert_skill"
    /\ LET skills == get(input, "skills")
           skill == skills[frame.done + 1]
       IN \E ok \in Replies :
             IF ok /\ skill # None
             THEN /\ connection' = [connection EXCEPT
                        !.pending.job_seeker_skills =
                            Append(@, skill_row(frame.job_seeker_id[1], skill))]
                  /\ IF frame.done + 1 = Len(skills)
                     THEN /\ frame' = [frame EXCEPT !.done = 0]
                          /\ pc' = "commit"
                     ELSE /\ frame' = [frame EXCEPT !.done = @ + 1]
                          /\ pc' = pc
             ELSE /\ frame' = [frame EXCEPT !.error = "job_seeker_skills"]
                  /\ pc' = "unwind"
                  /\ connection' = connection
    /\ UNCHANGED <<beyond_db, store, result>>

\* The pending rows are lost
committed_nothing(st, pending) == st
\* connection.commit(): the pending rows are in the tables
committed(st, pending) ==
    [st EXCEPT !.job_seeker = @ \o pending.job_seeker,
               !.job_seeker_experience = @ \o pending.job_seeker_experience,
               !.job_seeker_skills = @ \o pending.job_seeker_skills]

\* lines 60, 221: connection.commit()
Commit ==
    /\ pc = "commit"
    /\ \E ok \in Replies :
          IF ok
          THEN /\ store' = committed(store, connection.pending)
               /\ connection' = [connection EXCEPT !.pending = NoRows, !.commits = @ + 1]
               /\ pc' = "leave"
               /\ frame' = frame
          ELSE /\ frame' = [frame EXCEPT !.error = "commit"]
               /\ pc' = "unwind"
               /\ UNCHANGED <<store, connection>>
    /\ UNCHANGED <<beyond_db, result>>

\* lines 62, 223: return from inside the with blocks, which close the
\* cursor and the connection
Leave ==
    /\ pc = "leave"
    /\ frame' = [frame EXCEPT !.cursor = FALSE]
    /\ connection' = [connection EXCEPT !.state = "closed"]
    /\ result' = IF fn = "create_database" THEN TRUE ELSE frame.job_seeker_id
    /\ pc' = "returned"
    /\ UNCHANGED <<beyond_db, store>>

\* An Error leaves the with blocks: the cursor and the connection are
\* closed, and the server drops what the connection had not committed
Unwind ==
    /\ pc = "unwind"
    /\ frame' = [frame EXCEPT !.cursor = FALSE]
    /\ connection' = [connection EXCEPT !.state = "closed", !.pending = NoRows]
    /\ pc' = "handler"
    /\ UNCHANGED <<beyond_db, store, result>>

\* The Error leaves create_database
ReturnFalse_raising ==
    /\ pc = "handler"
    /\ fn = "create_database"
    /\ pc' = "raised"
    /\ UNCHANGED <<beyond_db, store, connection, frame, result>>
\* lines 63-65: except Error: return False
ReturnFalse ==
    /\ pc = "handler"
    /\ fn = "create_database"
    /\ result' = FALSE
    /\ pc' = "returned"
    /\ UNCHANGED <<beyond_db, store, connection, frame>>

\* lines 225-229: except Error: rollback if there is a connection, return
\* None.  The connection, if any, is closed by now: whether rollback() of a
\* closed connection raises is the connector's affair.
Rollback ==
    /\ pc = "handler"
    /\ fn = "insert_job_seeker_complete"
    /\ \E raises \in IF connection.state = "none" THEN {FALSE} ELSE BOOLEAN :
          IF raises
          THEN /\ pc' = "raised"
               /\ result' = result
          ELSE /\ result' = <<>>
               /\ pc' = "returned"
    /\ UNCHANGED <<beyond_db, store, connection, frame>>

NextDatabaseCall ==
    \/ GetConnection \/ ConnectToDatabase \/ GetCursor \/ CreateDatabase
    \/ StartTransaction \/ InsertSeeker \/ InsertExperience \/ InsertSkill
    \/ Commit \/ Leave \/ Unwind \/ ReturnFalse \/ Rollback
SpecDatabaseCall == InitDatabaseCall /\ [][NextDatabaseCall]_vars

(***************************************************************************)
(* process_resumes of src/main.py                                          *)
(*                                                                         *)
(* The calls it makes are taken whole: parse_resumes_from_folder gives the *)
(* batch, and each insert_parsed_resume is one step on the store.  The     *)
(* server is one that carries out every request its tables allow, which is *)
(* what main() has found when initialize_database has returned True.       *)
(***************************************************************************)
\* src/pdf_parser.py lines 277-280: the records of the files, in their order
RECURSIVE parse_files(_)
parse_files(files) ==
    IF files = <<>> THEN {<<>>}
    ELSE {<<first>> \o rest :
             first \in parse_resume(Head(files).pages, Head(files).readable),
             rest \in parse_files(Tail(files))}
\* src/pdf_parser.py lines 266-282: the lists parse_resumes_from_folder may return
parse_resumes_from_folder(dir) ==
    IF ~dir.exists THEN {<<>>} ELSE parse_files(SelectSeq(dir.listing, is_pdf))

\* src/db_utils.py lines 86-95: the job_seeker row of data is taken by the tables
seeker_accepted(st, data) ==
    /\ data.name # None
    /\ \/ data.email = None
       \/ \A j \in 1..Len(st.job_seeker) : st.job_seeker[j].email # data.email
\* src/db_utils.py lines 101, 111: so are its experience and skill rows
children_accepted(data) ==
    /\ \A j \in 1..Len(get(data, "experiences")) :
          get(data, "experiences")[j].company_name # None
    /\ \A j \in 1..Len(get(data, "skills")) : get(data, "skills")[j] # None
\* The rows of a call that got the id `id`
rows_of(id, data) ==
    [job_seeker |-> <<seeker_row(id, data)>>,
     job_seeker_experience |->
        [j \in 1..Len(get(data, "experiences")) |->
            experience_row(id, get(data, "experiences")[j])],
     job_seeker_skills |->
        [j \in 1..Len(get(data, "skills")) |-> skill_row(id, get(data, "skills")[j])]]
\* src/db_utils.py lines 186-229 on a server that refuses only what its
\* tables do not allow: the store after the call, the id returned (<<>> for
\* None), and whether an Error left the call instead
insert_job_seeker_complete(st, data) ==
    IF ~st.database
    THEN {[store |-> st, id |-> <<>>, raised |-> FALSE]}
    ELSE IF ~seeker_accepted(st, data)
    THEN {[store |-> st, id |-> <<>>, raised |-> r] : r \in BOOLEAN}
    ELSE IF ~children_accepted(data)
    THEN {[store |-> [st EXCEPT !.next_id = @ + 1], id |-> <<>>, raised |-> r] :
             r \in BOOLEAN}
    ELSE {[store |-> committed([st EXCEPT !.next_id = @ + 1], rows_of(st.next_id, data)),
           id |-> <<st.next_id>>, raised |-> FALSE]}

\* Python's truth of an Optional[str]
truthy(x) == x # None /\ x # ""
\* x or default
or_default(x, default) == IF truthy(x) THEN x ELSE default
\* list(a_set) again: the lists with the elements of the bag, once each
orderings(bag) ==
    {q \in [1..Cardinality(DOMAIN bag) -> DOMAIN bag] :
        \A i, j \in 1..Cardinality(DOMAIN bag) : i # j => q[i] # q[j]}
\* src/main.py lines 61-69: job_seeker_data, parsed_resume.skills being `skills`
job_seeker_data(parsed_resume, skills) ==
    [name |-> or_default(parsed_resume.name, "Unknown"),
     email |-> or_default(parsed_resume.email, ""),
     phone |-> or_default(parsed_resume.phone, ""),
     total_experience |-> parsed_resume.total_experience,
     resume_text |-> parsed_resume.raw_text,
     experiences |-> parsed_resume.companies,
     skills |-> skills]
\* src/main.py lines 54-79: the store after the call, the value returned,
\* and whether an Error left the call instead
insert_parsed_resume(st, parsed_resume) ==
    IF ~truthy(parsed_resume.name) /\ ~truthy(parsed_resume.email)
    THEN {[store |-> st, value |-> FALSE, raised |-> FALSE]}
    ELSE {[store |-> o.store, value |-> ~o.raised /\ o.id # <<>>, raised |-> o.raised] :
             o \in UNION {insert_job_seeker_complete(st, job_seeker_data(parsed_resume, skills)) :
                            skills \in orderings(parsed_resume.skills)}}

MaxBatch == 2
\* The resumes of the folder: with and without a name, with and without an
\* address, two with one address, one with the address of a stored row
ResumeFiles ==
    << [name |-> "smith.pdf", pages |-> <<"John Smith\nSkills: Python">>, readable |-> TRUE],
       [name |-> "JANE.PDF", pages |-> <<"JANE DOE">>, readable |-> TRUE],
       [name |-> "doe.pdf", pages |-> <<"Jane Doe\njane.doe@email.com">>, readable |-> TRUE],
       [name |-> "doe2.pdf", pages |-> <<"John Smith\nEmail: jane.doe@email.com">>,
        readable |-> TRUE],
       [name |-> "john.pdf", pages |-> <<"John Smith\nEmail: john@example.com">>,
        readable |-> TRUE],
       [name |-> "bob.pdf", pages |-> <<"Email: bob@site.org">>, readable |-> TRUE],
       [name |-> "blank.pdf", pages |-> <<"">>, readable |-> TRUE],
       [name |-> "notes.txt", pages |-> <<"John Smith">>, readable |-> TRUE] >>
ResumeFolders ==
    {[exists |-> TRUE, listing |-> q] :
        q \in {<<>>} \cup {q \in SeqsUpTo(ResumeFiles, MaxBatch) :
                               \A i, j \in 1..Len(q) : i # j => q[i].name # q[j].name}}

InitProcess ==
    /\ pc = "process"
    /\ fn = "process_resumes"
    /\ input = None
    /\ result = None
    /\ NoParse
    /\ folder \in ResumeFolders \cup {Missing}
    /\ pdf_files = <<>>
    /\ parsed_resumes = <<>>
    /\ NoPool
    /\ NoProcess
    /\ store \in {st \in Stores : st.database /\ st.reliable}
    /\ connection = NoConnection
    /\ frame = [NoFrame EXCEPT !.before = store]

\* src/main.py lines 38-42: the batch is parsed; no resume, False
ParseResumes ==
    /\ pc = "process"
    /\ \E batch \in parse_resumes_from_folder(folder) :
          /\ parsed_resumes' = batch
          /\ IF batch = <<>>
             THEN /\ result' = FALSE
                  /\ pc' = "returned"
             ELSE /\ result' = result
                  /\ pc' = "insert"
    /\ UNCHANGED <<parse_vars, fn, input, folder, pdf_files, pool_vars, db_vars, main_vars>>

\* src/main.py lines 46-48: the next resume of the batch is inserted
InsertParsedResume ==
    /\ pc = "insert"
    /\ Len(processed) < Len(parsed_resumes)
    /\ \E o \in insert_parsed_resume(store, parsed_resumes[Len(processed) + 1]) :
          /\ store' = o.store
          /\ IF o.raised
             THEN /\ pc' = "raised"
                  /\ UNCHANGED main_vars
             ELSE /\ processed' = Append(processed, o.value)
                  /\ success_count' = success_count + (IF o.value THEN 1 ELSE 0)
                  /\ pc' = pc
    /\ UNCHANGED <<parse_vars, fn, input, result, folder_vars, pool_vars, connection, frame>>

\* src/main.py lines 50-51
ReturnSuccess ==
    /\ pc = "insert"
    /\ Len(processed) = Len(parsed_resumes)
    /\ result' = (success_count > 0)
    /\ pc' = "returned"
    /\ UNCHANGED <<parse_vars, fn, input, folder_vars, pool_vars, db_vars, main_vars>>

NextProcess == ParseResumes \/ InsertParsedResume \/ ReturnSuccess
SpecProcess == InitProcess /\ [][NextProcess]_vars

(***************************************************************************)
(* Properties                                                              *)
(***************************************************************************)
ResumeFields ==
    {"name", "email", "phone", "total_experience", "companies", "skills", "raw_text"}
NoText == ~readable \/ strip(pages_text(document)) = ""
Names(entries) == [j \in 1..Len(entries) |-> entries[j].company_name]
Has(bag, x) == x \in DOMAIN bag

\* C1: for every document, readable or not, parse_resume never raises, and
\* it ends by returning a ParsedResume record.
C1_ParseReturns ==
    /\ [](pc # "raised")
    /\ <>(pc = "done" /\ DOMAIN parsed = ResumeFields)
\* a parse of a document the reader fails on has returned
C1_Witness == pc = "done" /\ ~readable /\ pages_text(document) # ""

\* C2: when no text is obtained (the reader fails, or the text is blank) the
\* parse goes straight to its end without scanning or running an extractor
\* and returns the record of the defaults with raw_text "".
C2_NoTextDefaults ==
    NoText =>
        /\ pc \in {"start", "done"}
        /\ calls = {}
        /\ pc = "done" =>
              parsed = [name |-> None, email |-> None, phone |-> None,
                        total_experience |-> 0, companies |-> <<>>,
                        skills |-> EmptyBag, raw_text |-> ""]
\* the defaults were returned for a document whose reading failed
C2_Witness == pc = "done" /\ ~readable /\ pages_text(document) # "" /\ raw_text = ""

\* C3: the resume of Jane Doe is parsed to her name, address, phone number,
\* 7.0 years, the one company entry and skills that include Python, Django
\* and Postgresql.
C3_JaneDoe ==
    (pc = "done" /\ raw_text = JaneDoe) =>
        /\ parsed.name = "Jane Doe"
        /\ parsed.email = "jane.doe@email.com"
        /\ parsed.phone = "(555) 987-6543"
        /\ parsed.total_experience = 700
        /\ parsed.companies =
              <<[company_name |-> "Amazing Company Inc", tenure |-> "2018 - Present"]>>
        /\ {"Python", "Django", "Postgresql"} \subseteq DOMAIN parsed.skills
C3_Witness == pc = "done" /\ raw_text = JaneDoe

\* The years a statement of ExperienceStatements states
StatedYears(text) ==
    LET j == CHOOSE i \in 1..Len(ExperienceStatements) : ExperienceStatements[i].text = text
    IN ExperienceStatements[j].years
\* C4: extract_experience_years returns the largest of the durations stated
\* in the text, not their sum, in years rounded to 2 decimals, a month being
\* 1/12 year; it returns 0.0 when no duration is stated and never a negative
\* number.
C4_MaxDuration ==
    Returned("extract_experience_years") =>
        LET stated == split_lines(input)
        IN /\ result = Max({StatedYears(stated[j]) : j \in 1..Len(stated)})
           /\ result >= 0
           /\ input = "5 years of experience and 3 years of experience" => result = 500
           /\ input = "6 months of experience" => result = 50
           /\ input = "2 years and 6 months" => result = 250
\* two durations were stated and the larger one returned
C4_Witness ==
    /\ Returned("extract_experience_years")
    /\ input = "3 years of experience\n5 years of experience"
    /\ result = 500

\* C5: no two entries returned by extract_companies have names that are
\* equal after lowercasing, each entry is the first collected of its name,
\* and Tech Corp written twice, in two cases, gives a single entry.
C5_Dedup ==
    Returned("extract_companies") =>
        LET collected == company_matches(input, 1)
        IN /\ \A i, j \in 1..Len(result) :
                 i # j => lower(result[i].company_name) # lower(result[j].company_name)
           /\ \A i \in 1..Len(result) :
                 result[i] = collected[Min({j \in 1..Len(collected) :
                     lower(collected[j].company_name) = lower(result[i].company_name)})]
           /\ input = "Tech Corp, 2020 - Present\nTECH CORP, 2020-Present" =>
                 result = <<[company_name |-> "Tech Corp", tenure |-> "2020 - Present"]>>
C5_Witness ==
    /\ Returned("extract_companies")
    /\ input = "Tech Corp, 2020 - Present\nTECH CORP, 2020-Present"
    /\ Len(result) = 1

\* The listing a text is, if it is one: the lines that carry the suffix
IsListing(text) == \E suffixed \in SUBSET (1..ListedCompanies) : text = Listing(suffixed)
Suffixed(text) == CHOOSE suffixed \in SUBSET (1..ListedCompanies) : text = Listing(suffixed)
\* The line of a listing an entry was taken from
ListedAt(entry) == CHOOSE j \in 1..Len(CompanyYears) : CompanyYears[j] = entry.tenure
\* The entries the corporate-suffix pattern collects
BySuffixPattern(text) ==
    LET ms == finditer(company_patterns[1], text)
    IN {[company_name |-> strip(group(text, ms[j], "1")),
         tenure |-> strip(group(text, ms[j], "2"))] : j \in 1..Len(ms)}

C7_SkillsCapped ==
    Returned("extract_skills") =>
        /\ BagCardinality(result) <= MaxSkills
        /\ \A skill \in DOMAIN result : result[skill] = 1
\* more than 20 skills were found and 20 returned
C7_Witness ==
    /\ Returned("extract_skills")
    /\ Len(skills_found(input)) > MaxSkills
    /\ BagCardinality(result) = MaxSkills

Keywords == {skill_keywords[j] : j \in 1..Len(skill_keywords)}
\* C8, as claimed: a keyword of the table that occurs in the text, in any
\* case, is returned title-cased, whatever else the text contains.
C8_KeywordReturned ==
    Returned("extract_skills") =>
        \A skill \in Keywords : Contains(lower(input), skill) => Has(result, title(skill))
\* C8, amended: a keyword of the table that occurs in the text, in any case,
\* is returned title-cased whenever the text yields at most 20 distinct
\* skills; of more than 20, any 20 are returned.
C8_KeywordReturnedWithinCap ==
    (Returned("extract_skills") /\ Len(skills_found(input)) <= MaxSkills) =>
        \A skill \in Keywords : Contains(lower(input), skill) => Has(result, title(skill))
C8_Witness == Returned("extract_skills") /\ input = "PYTHON" /\ Has(result, "Python")

\* The texts captured after a header of a skills section
CapturedSections(text) ==
    UNION {LET ms == finditer(skills_section_patterns[k], text)
           IN {group(text, ms[j], "1") : j \in 1..Len(ms)} : k \in 1..Len(skills_section_patterns)}
\* The captured text split on commas, bullets, pipes, hyphens and newlines
Tokens(section) ==
    LET pieces == SplitOn(section, {",", Bullet, "|", "-", "\n"})
    IN {strip(pieces[j]) : j \in 1..Len(pieces)}
\* C9: every trimmed token of a captured skills section, split on commas,
\* bullets, pipes, hyphens and newlines, that is longer than 2 and shorter
\* than 25 is returned as written; so JavaScript and SQL are returned for
\* "Technical Skills:\nPython, JavaScript, SQL, React, Node.js".
C9_FreeTextTokens ==
    (Returned("extract_skills") /\ Len(skills_found(input)) <= MaxSkills) =>
        /\ \A section \in CapturedSections(input) : \A token \in Tokens(section) :
              (Len(token) > MinSkillLen /\ Len(token) < MaxSkillLen) => Has(result, token)
        /\ input = "Technical Skills:\nPython, JavaScript, SQL, React, Node.js" =>
              (Has(result, "JavaScript") /\ Has(result, "SQL"))

\* C10: each extractor is given the joined lines of its bucket, or the full
\* text when the bucket is empty.
C10_FullTextFallback ==
    pc = "done" /\ raw_text # "" =>
        /\ parsed.email = extract_email(OrElse(join("\n", section_lines["email"]), raw_text))
        /\ parsed.phone = extract_phone(OrElse(join("\n", section_lines["phone"]), raw_text))
        /\ parsed.total_experience =
              extract_experience_years(OrElse(join("\n", section_lines["experience"]), raw_text))
        /\ parsed.companies =
              extract_companies(OrElse(join("\n", section_lines["experience"]), raw_text))
        /\ parsed.skills \in extract_skills(OrElse(join("\n", section_lines["skills"]), raw_text))

\* The lines the scan has filed so far, as they are filed
Filed == [j \in 1..idx |-> strip(lines[j])]
\* The bag of the elements of a list
Counted(list) == BagOf(list, 1..Len(list))
\* Whether list a is list b with some elements left out
RECURSIVE IsSubSeq(_, _)
IsSubSeq(a, b) ==
    IF a = <<>> THEN TRUE
    ELSE IF b = <<>> THEN FALSE
    ELSE IF Head(a) = Head(b) THEN IsSubSeq(Tail(a), Tail(b))
    ELSE IsSubSeq(a, Tail(b))
\* The elements of list at the positions of `keep`, in order
Selected(list, keep) ==
    LET order == Sorted(keep) IN [j \in 1..Len(order) |-> list[order[j]]]

\* C16: at every step of the scan the lines filed so far are each in exactly
\* one of the six buckets: the buckets' lengths add up to the number of
\* lines filed, together they hold exactly those lines, and each bucket
\* keeps the order of the document.
C16_EveryLineInOneBucket ==
    /\ DOMAIN section_lines = {"name", "email", "phone", "skills", "experience", "other"}
    /\ Len(section_lines["name"]) + Len(section_lines["email"]) + Len(section_lines["phone"])
         + Len(section_lines["skills"]) + Len(section_lines["experience"])
         + Len(section_lines["other"]) = idx
    /\ Counted(section_lines["name"]) (+) Counted(section_lines["email"])
         (+) Counted(section_lines["phone"]) (+) Counted(section_lines["skills"])
         (+) Counted(section_lines["experience"]) (+) Counted(section_lines["other"])
         = Counted(Filed)
    /\ \A bucket \in DOMAIN section_lines : IsSubSeq(section_lines[bucket], Filed)
\* five lines, one of them blank, were filed in three buckets
C16_Witness ==
    /\ raw_text = JaneDoe
    /\ idx = 5
    /\ Len(section_lines["other"]) = 1
    /\ Len(section_lines["email"]) = 3
    /\ section_lines["email"][3] = ""
    /\ Len(section_lines["experience"]) = 1

\* The label of the last line, at or before line j, that holds a clue
Label(j) ==
    LET clued == {i \in 1..j : matched_section(lines[i]) # None}
    IN IF clued = {} THEN "other" ELSE matched_section(lines[Max(clued)])
\* C17: each line is filed under the label of the most recent line, at or
\* before it, that holds a clue (a line with a clue is filed in its own
\* section), and under 'other' when no line up to it holds one.
C17_FiledUnderLatestClue ==
    \A bucket \in DOMAIN section_lines :
        section_lines[bucket] = Selected(Filed, {j \in 1..idx : Label(j) = bucket})
\* a line without a clue was filed after a header, in the header's section
C17_Witness ==
    /\ idx = 2
    /\ matched_section(lines[1]) = "experience"
    /\ matched_section(lines[2]) = None
    /\ section_lines["experience"] = Filed

\* The labels some clue of which is in the line
CluedLabels(line) ==
    {label \in {"skills", "experience", "name", "email", "phone"} :
        \E clue \in clue_words[label] : Contains(lower(strip(line)), clue)}
\* The first of the labels in the order skills, experience, name, email, phone
FirstLabel(labels) ==
    LET order == <<"skills", "experience", "name", "email", "phone">>
    IN order[Min({j \in 1..Len(order) : order[j] \in labels})]
\* C18: a line that holds clues of several labels is filed under the first
\* of them in the order skills, experience, name, email, phone, whatever the
\* current section; a line with a skills clue and an experience clue is
\* filed under skills.
C18_FirstLabelWins ==
    [][(pc = "scan" /\ CluedLabels(lines[idx + 1]) # {}) =>
          LET label == FirstLabel(CluedLabels(lines[idx + 1]))
          IN /\ current_section' = label
             /\ section_lines'[label] = Append(section_lines[label], strip(lines[idx + 1]))
             /\ {"skills", "experience"} \subseteq CluedLabels(lines[idx + 1]) => label = "skills"]_vars
\* a line with an experience clue before a skills clue was filed under
\* skills while the experience section was current
C18_Witness ==
    /\ idx = 2
    /\ lines = <<"Experience: 7 years of experience", "Work experience with tools">>
    /\ section_lines["skills"] = <<"Work experience with tools">>

\* The upper-case lines of 2 to 4 words
UpperLines ==
    {j \in 1..Len(lines) :
        /\ isupper(strip(lines[j]))
        /\ WordCount(strip(lines[j])) \in 2..4}
RECURSIVE Addresses(_)
Addresses(fragments) ==
    IF fragments = <<>> THEN <<>>
    ELSE LET j == CHOOSE i \in 1..Len(EmailFragments) : EmailFragments[i].text = Head(fragments)
         IN EmailFragments[j].addresses \o Addresses(Tail(fragments))
\* C11: extract_email returns the one address of a text unchanged, the first
\* in text order when the text holds several, and None when it holds none.
C11_FirstAddress ==
    Returned("extract_email") =>
        LET written == Addresses(split_lines(input))
        IN result = IF written = <<>> THEN None ELSE written[1]

\* The name a line of NameTexts is, or None
NameOf(line) ==
    IF line = Filler THEN None
    ELSE LET j == CHOOSE i \in 1..Len(NameCandidates) : NameCandidates[i].text = line
         IN NameCandidates[j].named
\* C19: extract_name returns, trimmed, the first of the first 5 lines of its
\* input that has the shape of a name, and None when none of these has it,
\* even if a later line has.
C19_FirstFiveLines ==
    Returned("extract_name") =>
        LET ls == split_lines(input)
            named == {j \in 1..Len(ls) : j <= 5 /\ NameOf(ls[j]) # None}
        IN result = IF named = {} THEN None ELSE NameOf(ls[Min(named)])
\* the sixth line is a name, the first five are not, and None was returned
C19_Witness ==
    /\ Returned("extract_name")
    /\ Len(split_lines(input)) = 6
    /\ NameOf(split_lines(input)[6]) = "John Smith"
    /\ result = None

\* The names of Files that end in .pdf, in whatever case
PdfNames == {"a.pdf", "B.PDF", "broken.pdf", "blank.Pdf"}
\* C12: parse_resumes_from_folder returns one record for each file of the
\* listing whose name ends in .pdf, in whatever case, in the order of the
\* listing, each the record parse_resume gives for the file (the defaults
\* for a PDF that cannot be read); other files are skipped, and a missing
\* folder gives the empty list.
C12_OneRecordPerPdf ==
    Returned("parse_resumes_from_folder") =>
        IF folder = Missing THEN result = <<>>
        ELSE LET listing == folder.listing
                 pdfs == Selected(listing, {j \in 1..Len(listing) : listing[j].name \in PdfNames})
             IN /\ Len(result) = Len(pdfs)
                /\ \A j \in 1..Len(pdfs) :
                      /\ result[j] \in parse_resume(pdfs[j].pages, pdfs[j].readable)
                      /\ result[j].raw_text =
                            IF pdfs[j].readable THEN strip(pages_text(pdfs[j].pages)) ELSE ""
                      /\ ~pdfs[j].readable =>
                            result[j] = [name |-> None, email |-> None, phone |-> None,
                                         total_experience |-> 0, companies |-> <<>>,
                                         skills |-> EmptyBag, raw_text |-> ""]
\* of an upper-case PDF name, a text file and an unreadable PDF, the first
\* and the last gave a record, the last the defaults
C12_Witness ==
    /\ Returned("parse_resumes_from_folder")
    /\ [j \in 1..Len(folder.listing) |-> folder.listing[j].name]
          = <<"B.PDF", "notes.txt", "broken.pdf">>
    /\ Len(result) = 2
    /\ result[1].email = "bob@site.org"
    /\ result[2].raw_text = ""

\* The callers whose call has returned
Done == {p \in DOMAIN parses : parses[p].pc = "done"}
\* The lists a returned record refers to
ListsOf(p) == {parses[p].parsed.companies, parses[p].parsed.skills}
\* C13: a call of parse_resume never changes the tables of the parser nor a
\* record returned earlier or its lists; every record has companies and
\* skills lists that are its own; and however the calls are interleaved,
\* each returns a record parse_resume gives for its document alone.
C13_Independent ==
    /\ [](\A p \in Done :
            /\ Dereferenced(heap, parses[p].parsed)
                  \in parse_resume(parses[p].document, parses[p].readable)
            /\ parses[p].parsed.companies # parses[p].parsed.skills
            /\ \A q \in Done \ {p} : ListsOf(p) \cap ListsOf(q) = {})
    /\ [][/\ parser' = parser
          /\ \A p \in Done :
                /\ parses'[p].parsed = parses[p].parsed
                /\ \A list \in ListsOf(p) : heap'[list] = heap[list]]_vars
\* two calls returned the defaults, each with lists of its own
C13_Witness ==
    /\ Done = {1, 2}
    /\ parses[1].raw_text = ""
    /\ parses[2].raw_text = ""
    /\ Cardinality(ListsOf(1) \cup ListsOf(2)) = 4

\* The rows of list b after those of list a
Added(a, b) == SubSeq(b, Len(a) + 1, Len(b))
\* C14: when insert_job_seeker_complete returns an id, the store has, more
\* than before the call, one job_seeker row with that id and the data given,
\* one job_seeker_experience row for each entry of data['experiences'] and
\* one job_seeker_skills row for each entry of data['skills'], each with
\* that id, all committed by one commit.
C14_CompleteInsert ==
    (Returned("insert_job_seeker_complete") /\ result # <<>>) =>
        LET id == result[1]
            experiences == IF "experiences" \in DOMAIN input THEN input.experiences ELSE <<>>
            skills == IF "skills" \in DOMAIN input THEN input.skills ELSE <<>>
        IN /\ id \notin {frame.before.job_seeker[j].id : j \in 1..Len(frame.before.job_seeker)}
           /\ store.job_seeker = frame.before.job_seeker \o
                 <<[id |-> id, name |-> input.name, email |-> input.email,
                    phone |-> input.phone, total_experience |-> input.total_experience,
                    resume_text |-> input.resume_text]>>
           /\ Added(frame.before.job_seeker_experience, store.job_seeker_experience) =
                 [j \in 1..Len(experiences) |->
                     [job_seeker_id |-> id, company_name |-> experiences[j].company_name,
                      tenure |-> experiences[j].tenure]]
           /\ Added(frame.before.job_seeker_skills, store.job_seeker_skills) =
                 [j \in 1..Len(skills) |-> [job_seeker_id |-> id, skill |-> skills[j]]]
           /\ connection.commits = 1
           /\ connection.pending = NoRows
\* John Doe was inserted with two experiences and three skills
C14_Witness ==
    /\ Returned("insert_job_seeker_complete")
    /\ result = <<1>>
    /\ input.name = "John Doe"
    /\ Len(store.job_seeker_experience) = 2
    /\ Len(store.job_seeker_skills) = 3

\* C15: create_database never raises a database error: when connecting
\* fails it returns False; and it returns True only when CREATE DATABASE
\* has been executed once, and committed.
C15_FailureAsValue ==
    fn = "create_database" =>
        /\ pc # "raised"
        /\ pc = "returned" =>
              /\ result \in BOOLEAN
              /\ frame.error = "connect" => result = FALSE
              /\ result = TRUE =>
                    /\ connection.statements = <<"CREATE DATABASE IF NOT EXISTS">>
                    /\ connection.commits = 1
                    /\ store.database
\* the connection failed and False was returned
C15_Witness ==
    /\ Returned("create_database")
    /\ frame.error = "connect"
    /\ result = FALSE

\* The lines of Documents that hold a well-formed address, each with it
AddressLines ==
    << [text |-> "Email: jane.doe@email.com", address |-> "jane.doe@email.com"],
       [text |-> "bob@site.org (555) 987-6543", address |-> "bob@site.org"],
       [text |-> "jane.doe@email.com", address |-> "jane.doe@email.com"] >>
\* The addresses written on the lines ls
WrittenAddresses(ls) ==
    {AddressLines[j].address :
        j \in {i \in 1..Len(AddressLines) : \E k \in 1..Len(ls) : ls[k] = AddressLines[i].text}}
\* C21: when the text of the document holds a well-formed address, the
\* record parse_resume returns has an email, and it is an address of the text.
C21_AddressFound ==
    (pc = "done" /\ WrittenAddresses(split_lines(raw_text)) # {}) =>
        /\ parsed.email # None
        /\ parsed.email \in WrittenAddresses(split_lines(raw_text))

\* The errors of the three inserts of insert_job_seeker_complete
InsertErrors == {"job_seeker", "job_seeker_experience", "job_seeker_skills"}
\* The tables of a store
Tables(st) ==
    [job_seeker |-> st.job_seeker, job_seeker_experience |-> st.job_seeker_experience,
     job_seeker_skills |-> st.job_seeker_skills]
\* C22: when one of the inserts of insert_job_seeker_complete fails with a
\* database error, the call does not raise: it returns None, and the tables
\* hold no row of the call, being what they were before it.
C22_AllOrNothing ==
    (fn = "insert_job_seeker_complete" /\ frame.error \in InsertErrors) =>
        /\ pc # "raised"
        /\ pc = "returned" =>
              /\ result = <<>>
              /\ Tables(store) = Tables(frame.before)

\* The address a resume carries: the email extracted from it, if any
Carried(parsed_resume) ==
    IF truthy(parsed_resume.email) THEN {parsed_resume.email} ELSE {}
\* No two resumes of the batch carry the same address, and none carries the
\* address of a row stored before the call
DistinctAddresses ==
    /\ \A i, j \in 1..Len(parsed_resumes) :
          i # j => Carried(parsed_resumes[i]) \cap Carried(parsed_resumes[j]) = {}
    /\ \A i \in 1..Len(parsed_resumes) : \A k \in 1..Len(frame.before.job_seeker) :
          frame.before.job_seeker[k].email \notin Carried(parsed_resumes[i])
\* The j-th resume of the batch has its row in job_seeker, put there by this call
Inserted(j) ==
    /\ processed[j]
    /\ \E k \in 1..Len(store.job_seeker) :
          /\ store.job_seeker[k].id >= frame.before.next_id
          /\ store.job_seeker[k].resume_text = parsed_resumes[j].raw_text
\* C23: on a server that refuses nothing but a duplicate job_seeker.email,
\* when no two resumes of the batch, and no resume and stored row, carry the
\* same address (a resume without an email carrying none), process_resumes
\* raises nothing and inserts every resume that has a name; a resume is not
\* inserted only when it has neither a name nor an email.
C23_NamedInserted ==
    (fn = "process_resumes" /\ DistinctAddresses) =>
        /\ pc # "raised"
        /\ \A j \in 1..Len(processed) :
              /\ truthy(parsed_resumes[j].name) => Inserted(j)
              /\ ~Inserted(j) =>
                    ~truthy(parsed_resumes[j].name) /\ ~truthy(parsed_resumes[j].email)

=============================================================================
